---------------------------- MODULE Spec2Model ----------------------------
(***************************************************************************)
(* A model of the RFID/NFC jukebox's tag text handling:                    *)
(*   - the NDEF text codec and the paged (NTAG) reader/writer of           *)
(*     src/src/rfid_audio_player/rfid_reader.py,                           *)
(*   - the polling/de-duplication state machine of Reader.read_tag,        *)
(*   - the main loop / web thread interleaving of main.py and              *)
(*     web_server.py,                                                      *)
(*   - the sectored (MIFARE Classic) block reader of src/rfid_reader.py    *)
(*     and block writer of src/write_tag.py.                               *)
(*                                                                         *)
(* Bytes are integers 0..255, byte strings are sequences of bytes, a str   *)
(* is a sequence of code points.  Python's None is the value None below.   *)
(***************************************************************************)
EXTENDS Integers, Sequences, FiniteSets, TLC

VARIABLES
    \* --- codec pipeline (pure functions applied step by step)
    c_text,         \* the text handed to the encoder (code points)
    c_lang,         \* the language code handed to the encoder
    c_stage,        \* "input" | "encoded" | "wrapped" | "unwrapped" | "decoded" | "rejected"
    c_record,       \* result of _create_text_record
    c_tlv,          \* result of _create_tlv_wrapper
    c_msg,          \* NDEF message found by the TLV scan
    c_out,          \* result of _parse_text_record
    c_btlv,         \* result of write_tag.py's build_text_ndef_tlv (None: it
                    \* raised, NotBuilt: not called yet)
    \* --- paged Reader (src/src/rfid_audio_player/rfid_reader.py)
    rfid,           \* Reader.rfid is not None (the driver was initialised)
    last_uid,       \* Reader.last_uid
    field,          \* the tag in the antenna's field: 0 = none, else a tag number
    mem,            \* bytes of the tag in the field, page p at bytes 4p+1..4p+4
    op,             \* the Reader operation that has just returned: "poll" | "write";
                    \* "none" at the start and once a tag has come or gone since
    ret_uid,        \* read_tag's first return value   (what the operation that
    ret_text,       \* read_tag's second return value   has just returned gave
    ret_ok,         \* write_text's return value         back; cleared otherwise)
    calls,          \* transport calls issued by that operation, in order
    observed,       \* UID string the last poll observed (None: no tag observed,
                    \* NoPoll: there has been no poll yet)
    prev_last_uid,  \* last_uid as it was before the last operation
    prev_observed,  \* what the poll before the last poll observed
    prev2_observed, \* what the poll before that one observed
    polled,         \* the tag the last poll observed (0: none, or no poll yet)
    prev_polled,    \* the tag the poll before the last poll observed
    wr_text,        \* where the writes are followed: the text the last
                    \* write_text was called with (None: there was none)
    wr_before,      \* and what a read of the tag gave before that write_text
    \* --- main loop and web thread sharing one Reader
    m_pc,           \* main loop: position inside read_tag
    m_page,         \* main loop: next page _read_pages will read
    w_pc,           \* web thread: position inside write_text
    w_page,         \* web thread: index of the next page _write_pages will write
    bus,            \* the last two transport calls on the shared driver, in
                    \* the order issued, each with the thread that issued it
    \* --- sectored adapter (src/rfid_reader.py, src/write_tag.py)
    start_block,    \* TAG_NDEF_START_BLOCK of the deployment
    block_count,    \* TAG_NDEF_BLOCK_COUNT of the deployment
    blocks_mem,     \* the card: block b's 16 bytes at blocks_mem[b + 1]
    s_op,           \* the last sectored operation: "none" | "read" | "write"
    s_calls,        \* transport calls issued by the last sectored operation
    s_payload,      \* _read_blocks' return value
    s_success,      \* write_text_to_tag's success flag
    s_text,         \* the text the last write_text_to_tag was called with
    s_decoded,      \* _read_ndef_text_payload's return value
    \* --- the paged Reader's methods called with chosen arguments
    a_start,        \* start_page
    a_count,        \* page_count of _read_pages
    a_data,         \* data of _write_pages
    a_text,         \* text of write_text
    a_payload,      \* _read_pages' return value
    \* --- the TLV scan and the record parser called on chosen bytes
    a_layout,       \* how the bytes were laid out: the TLVs of a buffer or
                    \* the fields of a record
    a_raw,          \* raw_bytes, the buffer read from the tag
    a_message,      \* the NDEF message handed to the parser
    a_parsed,       \* the parser's return value
    \* --- AudioPlayer (src/src/rfid_audio_player/audio_player.py)
    current_playlist,     \* AudioPlayer.current_playlist
    current_track_index,  \* AudioPlayer.current_track_index
    paused,               \* AudioPlayer.paused
    playing,              \* AudioPlayer.playing
    p_op,           \* the AudioPlayer method that has just returned
    p_ret,          \* load_playlist's return value (None after the others)
    p_mixer,        \* pygame.mixer.music calls issued by that method
    p_before,       \* the four fields as they were before that method
    p_prev_op,      \* the method that returned before it
    p_before2,      \* the four fields as they were before that one
    \* --- the TLV scan of _read_ndef_text, one pass of its loop at a time
    sc_pc,          \* "idle" | "loop" (at `while tlv_idx < len(raw_bytes)`)
                    \* | "done" (the loop was left) | "raised" (IndexError)
    sc_idx,         \* tlv_idx
    sc_iter,        \* passes of the loop body so far
    sc_prev_idx,    \* tlv_idx at the start of the last pass (-1: no pass yet)
    sc_reads        \* the indexes i of every raw_bytes[i] evaluated so far

codecVars == <<c_text, c_lang, c_stage, c_record, c_tlv, c_msg, c_out, c_btlv>>
readerVars == <<rfid, last_uid, field, mem, op, ret_uid, ret_text, ret_ok, calls,
                observed, prev_last_uid, prev_observed, prev2_observed,
                polled, prev_polled, wr_text, wr_before>>
threadVars == <<m_pc, m_page, w_pc, w_page, bus>>
sectorVars == <<start_block, block_count, blocks_mem, s_op, s_calls,
                s_payload, s_success, s_text, s_decoded>>
parseArgs == <<a_layout, a_raw, a_message, a_parsed>>
argVars == <<a_start, a_count, a_data, a_text, a_payload, parseArgs>>
playerVars == <<current_playlist, current_track_index, paused, playing,
                p_op, p_ret, p_mixer, p_before, p_prev_op, p_before2>>
stepVars == <<sc_pc, sc_idx, sc_iter, sc_prev_idx, sc_reads>>
vars == <<codecVars, readerVars, threadVars, sectorVars, argVars, playerVars, stepVars>>

(***************************************************************************)
(* Bounds of the model.                                                    *)
(***************************************************************************)
MaxTextLen == 3         \* code points of an enumerated text
NTags == 2              \* tags that may be put on the reader
TagPages == 40          \* pages of a tag's memory
MaxStartBlock == 4      \* largest configured first block
MaxBlockCount == 6      \* largest configured block count
CardBlocks == 12        \* blocks of the card on the sectored reader

(***************************************************************************)
(* Python values and slicing.                                              *)
(***************************************************************************)
None == <<-1>>

\* In the model's records of past polls: there was none.
NoPoll == <<-2>>

\* The value of a result before the function was called.
NotBuilt == <<-3>>

\* The outcome of a try block that raised.
Raised == <<-4>>

\* The layout of bytes that were not laid out by the model.
NoLayout == [kind |-> "none"]

Min(a, b) == IF a <= b THEN a ELSE b
Max(a, b) == IF a >= b THEN a ELSE b

\* s[a:b] for 0 <= a: 0-based, half open, clipped to the sequence.
Slice(s, a, b) ==
    IF a >= Min(b, Len(s)) THEN <<>> ELSE SubSeq(s, a + 1, Min(b, Len(s)))

\* s[a:]
SliceFrom(s, a) == Slice(s, a, Len(s))

\* bytes([0x00] * n)
Zeros(n) == [i \in 1..n |-> 0]

RECURSIVE Concat(_)
Concat(ss) == IF ss = <<>> THEN <<>> ELSE Head(ss) \o Concat(Tail(ss))

(***************************************************************************)
(* str.encode("utf-8"), bytes.decode(..., errors="ignore"), str.strip().   *)
(***************************************************************************)
IsSurrogate(cp) == cp >= 55296 /\ cp <= 57343

utf8_char(cp) ==
    IF cp < 128 THEN <<cp>>
    ELSE IF cp < 2048 THEN <<192 + (cp \div 64), 128 + (cp % 64)>>
    ELSE IF cp < 65536
        THEN <<224 + (cp \div 4096), 128 + ((cp \div 64) % 64), 128 + (cp % 64)>>
    ELSE <<240 + (cp \div 262144), 128 + ((cp \div 4096) % 64),
           128 + ((cp \div 64) % 64), 128 + (cp % 64)>>

\* The characters' encodings joined, halving the text to keep the
\* evaluation shallow.
RECURSIVE utf8_encode(_)
utf8_encode(text) ==
    IF text = <<>> THEN <<>>
    ELSE IF Len(text) = 1 THEN utf8_char(text[1])
    ELSE LET h == Len(text) \div 2
         IN  utf8_encode(SubSeq(text, 1, h)) \o utf8_encode(SubSeq(text, h + 1, Len(text)))

IsCont(b) == b >= 128 /\ b <= 191

\* Number of bytes of the well-formed UTF-8 sequence starting at s[i] (1-based),
\* 0 when s[i] does not start one.
utf8_seq_len(s, i) ==
    LET b == s[i]
        n == Len(s)
        c1 == IF i + 1 <= n THEN s[i + 1] ELSE -1
        c2 == IF i + 2 <= n THEN s[i + 2] ELSE -1
        c3 == IF i + 3 <= n THEN s[i + 3] ELSE -1
    IN  IF b < 128 THEN 1
        ELSE IF b >= 194 /\ b <= 223 THEN (IF IsCont(c1) THEN 2 ELSE 0)
        ELSE IF b >= 224 /\ b <= 239
            THEN (IF /\ IsCont(c1) /\ IsCont(c2)
                     /\ (b = 224 => c1 >= 160)
                     /\ (b = 237 => c1 <= 159)
                  THEN 3 ELSE 0)
        ELSE IF b >= 240 /\ b <= 244
            THEN (IF /\ IsCont(c1) /\ IsCont(c2) /\ IsCont(c3)
                     /\ (b = 240 => c1 >= 144)
                     /\ (b = 244 => c1 <= 143)
                  THEN 4 ELSE 0)
        ELSE 0

utf8_code_point(s, i, k) ==
    IF k = 1 THEN s[i]
    ELSE IF k = 2 THEN (s[i] - 192) * 64 + (s[i + 1] - 128)
    ELSE IF k = 3
        THEN (s[i] - 224) * 4096 + (s[i + 1] - 128) * 64 + (s[i + 2] - 128)
    ELSE (s[i] - 240) * 262144 + (s[i + 1] - 128) * 4096
         + (s[i + 2] - 128) * 64 + (s[i + 3] - 128)

\* bytes.decode("utf-8", errors="ignore"): bytes that are part of no
\* well-formed sequence are dropped.  The bytes inside a well-formed sequence
\* are continuation bytes, which start none, so the decoder's left-to-right
\* pass yields exactly the sequences that start at some index.
utf8_decode(s) ==
    LET starts == SelectSeq([i \in 1..Len(s) |-> i], LAMBDA i : utf8_seq_len(s, i) > 0)
    IN  [j \in 1..Len(starts) |->
            utf8_code_point(s, starts[j], utf8_seq_len(s, starts[j]))]

\* bytes.decode("utf-16", errors="ignore"): a leading BOM selects the byte
\* order (little endian without one, the Pi's native order); a high surrogate
\* pairs with the low surrogate after it, unpaired surrogates and a trailing
\* odd byte are dropped.
utf16_units(s, first, big) ==
    [j \in 1..((Len(s) - first + 1) \div 2) |->
        LET i == first + 2 * (j - 1)
        IN  IF big THEN s[i] * 256 + s[i + 1] ELSE s[i + 1] * 256 + s[i]]

IsHigh(u) == u >= 55296 /\ u <= 56319
IsLow(u) == u >= 56320 /\ u <= 57343

utf16_decode_units(u) ==
    LET emits(j) == \/ ~IsHigh(u[j]) /\ ~IsLow(u[j])
                    \/ IsHigh(u[j]) /\ j < Len(u) /\ IsLow(u[j + 1])
        at == SelectSeq([j \in 1..Len(u) |-> j], emits)
    IN  [k \in 1..Len(at) |->
            IF IsHigh(u[at[k]])
               THEN 65536 + (u[at[k]] - 55296) * 1024 + (u[at[k] + 1] - 56320)
               ELSE u[at[k]]]

utf16_decode(s) ==
    IF Len(s) >= 2 /\ s[1] = 255 /\ s[2] = 254 THEN utf16_decode_units(utf16_units(s, 3, FALSE))
    ELSE IF Len(s) >= 2 /\ s[1] = 254 /\ s[2] = 255
        THEN utf16_decode_units(utf16_units(s, 3, TRUE))
    ELSE utf16_decode_units(utf16_units(s, 1, FALSE))

\* str.isspace() of one character.
IsSpace(cp) ==
    \/ cp >= 9 /\ cp <= 13
    \/ cp >= 28 /\ cp <= 32
    \/ cp \in {133, 160, 5760, 8232, 8233, 8239, 8287, 12288}
    \/ cp >= 8192 /\ cp <= 8202

\* str.strip(): what lies between the first and the last character that is
\* not whitespace.
strip(t) ==
    LET keep == {i \in 1..Len(t) : ~IsSpace(t[i])}
    IN  IF keep = {} THEN <<>>
        ELSE SubSeq(t, CHOOSE i \in keep : \A j \in keep : i <= j,
                       CHOOSE i \in keep : \A j \in keep : i >= j)

(***************************************************************************)
(* NDEF text codec of the paged Reader.                                    *)
(***************************************************************************)
\* Reader._create_text_record: None when the try block raises (a character
\* that cannot be encoded, a non-ASCII language code, or a payload length
\* that does not fit bytes([..])).
create_text_record_status_missing(text, lang_code) ==
    LET payload == lang_code \o utf8_encode(text)
    IN  <<209, 1, Len(payload), 84>> \o payload

create_text_record(text, lang_code) ==
    IF \/ \E i \in 1..Len(text) : IsSurrogate(text[i])
       \/ \E i \in 1..Len(lang_code) : lang_code[i] >= 128 \/ IsSurrogate(lang_code[i])
    THEN None
    ELSE LET text_bytes == utf8_encode(text)
             lang_bytes == lang_code
             status == Len(lang_bytes) % 64
             payload == <<status>> \o lang_bytes \o text_bytes
             payload_length == Len(payload)
             header == 209
             type_length == 1
         IN  IF payload_length > 255 THEN None
             ELSE <<header, type_length, payload_length>> \o <<84>> \o payload

\* Reader._create_tlv_wrapper
create_tlv_wrapper_unpadded(ndef_message) ==
    IF Len(ndef_message) < 255
       THEN <<3, Len(ndef_message)>> \o ndef_message \o <<254>>
       ELSE <<3, 255, Len(ndef_message) \div 256, Len(ndef_message) % 256>>
            \o ndef_message \o <<254>>

create_tlv_wrapper(ndef_message) ==
    LET message_length == Len(ndef_message)
        tlv == IF message_length < 255
                  THEN <<3, message_length>> \o ndef_message
                  ELSE <<3, 255, message_length \div 256, message_length % 256>>
                       \o ndef_message
        terminated == tlv \o <<254>>
        padding_needed == (4 - (Len(terminated) % 4)) % 4
    IN  terminated \o Zeros(padding_needed)

\* The TLV scan of Reader._read_ndef_text: the value of the first NDEF
\* message TLV (type 0x03), None when the loop ends without one.
\* tlv_idx is the 0-based index of the code.
\* `if tlv_type == 0x00: continue`
is_null_tlv_never(tlv_type) == FALSE

is_null_tlv(tlv_type) == tlv_type = 0

\* `if tlv_type == 0xFE: break`
is_terminator_never(tlv_type) == FALSE

is_terminator(tlv_type) == tlv_type = 254

\* `tlv_idx += length`
next_tlv_ignores_length(tlv_idx, length) == tlv_idx

next_tlv(tlv_idx, length) == tlv_idx + length

RECURSIVE tlv_scan_from(_, _)
tlv_scan_from(raw_bytes, tlv_idx) ==
    IF ~(tlv_idx < Len(raw_bytes)) THEN None
    ELSE LET tlv_type == raw_bytes[tlv_idx + 1]
             i1 == tlv_idx + 1
             \* a run of NULL TLVs: the loop continues at the next byte that
             \* is not 0x00, or ends with the buffer
             rest == {j \in i1..(Len(raw_bytes) - 1) : raw_bytes[j + 1] # 0}
         IN  IF is_null_tlv(tlv_type)
                THEN IF rest = {} THEN None
                     ELSE tlv_scan_from(raw_bytes, CHOOSE j \in rest : \A k \in rest : j <= k)
             ELSE IF is_terminator(tlv_type) THEN None
             ELSE IF i1 >= Len(raw_bytes) THEN None
             ELSE LET short == raw_bytes[i1 + 1]
                      i2 == i1 + 1
                  IN  IF short = 255 /\ i2 + 1 >= Len(raw_bytes) THEN None
                      ELSE LET length == IF short = 255
                                            THEN raw_bytes[i2 + 1] * 256 + raw_bytes[i2 + 2]
                                            ELSE short
                               i3 == IF short = 255 THEN i2 + 2 ELSE i2
                           IN  IF tlv_type = 3
                                  THEN Slice(raw_bytes, i3, i3 + length)
                                  ELSE tlv_scan_from(raw_bytes, next_tlv(i3, length))

tlv_scan(raw_bytes) == tlv_scan_from(raw_bytes, 0)

\* int.from_bytes(b, "big")
RECURSIVE from_bytes_big(_)
from_bytes_big(b) ==
    IF b = <<>> THEN 0 ELSE from_bytes_big(SubSeq(b, 1, Len(b) - 1)) * 256 + b[Len(b)]

\* bytes.decode("ascii", errors="ignore")
ascii_decode(b) == SelectSeq(b, LAMBDA x : x < 128)

\* `record_type.decode("ascii", errors="ignore") != "T"`
is_text_type_any(record_type) == TRUE

is_text_type(record_type) == ascii_decode(record_type) = <<84>>

\* Bytes of the payload length field: `if sr: ... idx += 1 else: ... idx += 4`
payload_length_width_one(sr) == 1

payload_length_width(sr) == IF sr THEN 1 ELSE 4

\* `text_bytes = payload[1 + lang_length:]`
text_start_after_status(lang_length) == 1

text_start(lang_length) == 1 + lang_length

\* The try block of Reader._parse_text_record: the value it returns, Raised
\* when an index past the end of the message raises IndexError.
parse_text_record_try(message) ==
    IF Len(message) < 2 THEN Raised
    ELSE LET header == message[1]
             sr == (header \div 16) % 2 = 1
             il == (header \div 8) % 2 = 1
             type_length == message[2]
             idx_len == 2
         IN  IF sr /\ idx_len >= Len(message) THEN Raised
             ELSE LET width == payload_length_width(sr)
                      payload_length ==
                          IF sr THEN message[idx_len + 1]
                          ELSE from_bytes_big(Slice(message, idx_len, idx_len + width))
                      idx_il == idx_len + width
                  IN  IF il /\ idx_il >= Len(message) THEN Raised
                      ELSE LET id_length == IF il THEN message[idx_il + 1] ELSE 0
                               idx_type == IF il THEN idx_il + 1 ELSE idx_il
                               record_type == Slice(message, idx_type, idx_type + type_length)
                               idx == idx_type + type_length + id_length
                               payload == Slice(message, idx, idx + payload_length)
                           IN  IF ~is_text_type(record_type) \/ payload = <<>>
                                  THEN None
                                  ELSE LET status == payload[1]
                                           is_utf16 == status >= 128
                                           lang_length == status % 64
                                           text_bytes == SliceFrom(payload, text_start(lang_length))
                                           text == strip(IF is_utf16
                                                            THEN utf16_decode(text_bytes)
                                                            ELSE utf8_decode(text_bytes))
                                       IN  IF text = <<>> THEN None ELSE text

\* Reader._parse_text_record without its except clause.
parse_text_record_uncaught(message) == parse_text_record_try(message)

\* Reader._parse_text_record: `if not message: return None`, then the try
\* block, whose exceptions the except clause turns into None.
parse_text_record(message) ==
    IF message = <<>> THEN None
    ELSE LET r == parse_text_record_try(message)
         IN  IF r = Raised THEN None ELSE r

\* lang_code's default, "en"
LangEn == <<101, 110>>

(***************************************************************************)
(* The encoder of the sectored writer, src/write_tag.py.                   *)
(***************************************************************************)
build_text_ndef_tlv_unterminated(text, language) ==
    LET payload == <<Len(language) % 64>> \o language \o utf8_encode(text)
        ndef_record == <<209, 1, Len(payload), 84>> \o payload
    IN  IF Len(ndef_record) > 255 THEN None
        ELSE <<3, Len(ndef_record)>> \o ndef_record

\* build_text_ndef_tlv: None when it raises (text or language that cannot be
\* encoded, a length that does not fit bytes([..])).
build_text_ndef_tlv(text, language) ==
    IF \/ \E i \in 1..Len(text) : IsSurrogate(text[i])
       \/ \E i \in 1..Len(language) : language[i] >= 128
    THEN None
    ELSE LET text_bytes == utf8_encode(text)
             lang_bytes == language
             status == Len(lang_bytes) % 64
             payload == <<status>> \o lang_bytes \o text_bytes
             ndef_record == <<209, 1, Len(payload), 84>> \o payload
         IN  IF Len(payload) > 255 \/ Len(ndef_record) > 255 THEN None
             ELSE <<3, Len(ndef_record)>> \o ndef_record \o <<254>>

(***************************************************************************)
(* The paged Reader: configuration, transport calls, page reads.           *)
(***************************************************************************)
TAG_NDEF_START_PAGE == 4
TAG_NDEF_PAGE_COUNT == 32

\* One call of the pirc522 driver, as logged by the model: its name, the
\* page or block it addresses, the bytes it carries, and whether the driver
\* reported success.
Call(name, page, data, ok) == [call |-> name, page |-> page, data |-> data, ok |-> ok]

\* str(n) for a byte, as code points.
str_int(n) ==
    IF n < 10 THEN <<48 + n>>
    ELSE IF n < 100 THEN <<48 + (n \div 10), 48 + (n % 10)>>
    ELSE <<48 + (n \div 100), 48 + ((n \div 10) % 10), 48 + (n % 10)>>

\* "".join(map(str, uid))
uid_to_str_first_byte(uid) == str_int(uid[1])

uid_to_str(uid) == Concat([i \in 1..Len(uid) |-> str_int(uid[i])])

\* rfid.read(page): the 16 bytes of 4 pages starting at `page`.
read_data(memory, page) == Slice(memory, 4 * page, 4 * page + 16)

\* `bytes(payload[:page_count * 4])`
trim_nothing(payload, page_count) == payload

trim(payload, page_count) == Slice(payload, 0, page_count * 4)

\* Reader._read_pages.  rd_fail = k > 0: the k-th rfid.read reports an error.
\* The result holds the returned bytes (or None) and the calls issued.
read_pages(memory, start_page, page_count, rd_fail) ==
    IF page_count <= 0 THEN [payload |-> None, calls |-> <<>>]
    ELSE LET n_reads == (page_count + 3) \div 4
             failed == rd_fail >= 1 /\ rd_fail <= n_reads
             issued == IF failed THEN rd_fail ELSE n_reads
             page_of(k) == start_page + 4 * (k - 1)
             payload == Concat([k \in 1..n_reads |-> read_data(memory, page_of(k))])
         IN  [payload |-> IF failed THEN None ELSE trim(payload, page_count),
              calls |-> [k \in 1..issued |-> Call("read", page_of(k), <<>>, k # rd_fail)]]

\* Reader._read_ndef_text
read_ndef_text(uid_bytes, memory, rd_fail) ==
    IF uid_bytes = <<>> \/ TAG_NDEF_PAGE_COUNT <= 0
       THEN [text |-> None, calls |-> <<>>]
    ELSE LET r == read_pages(memory, TAG_NDEF_START_PAGE, TAG_NDEF_PAGE_COUNT, rd_fail)
             raw_bytes == r.payload
             ndef_message == IF raw_bytes = None THEN None ELSE tlv_scan(raw_bytes)
         IN  [text |-> IF raw_bytes = None \/ raw_bytes = <<>> \/ ndef_message = None
                          THEN None
                          ELSE parse_text_record(ndef_message),
              calls |-> r.calls]

(***************************************************************************)
(* Reader.read_tag: one poll.                                              *)
(***************************************************************************)
\* The UIDs anticoll returns for the tags of the model: four UID bytes and
\* their check byte (the XOR of the four).  Tags 2 and 3 have different bytes
\* and the same decimal concatenation.
TagUID(tag) ==
    IF tag = 1 THEN <<1, 2, 3, 4, 5>>
    ELSE IF tag = 2 THEN <<1, 1, 1, 11, 10>>
    ELSE IF tag = 3 THEN <<1, 1, 11, 1, 10>>
    ELSE <<136, 4, 185, 16, tag>>

\* `if uid_str and uid_str != self.last_uid`
is_new_tag_no_compare(uid_str, last) == uid_str # None /\ uid_str # <<>>

is_new_tag(uid_str, last) == uid_str # None /\ uid_str # <<>> /\ uid_str # last

\* self.last_uid after the two branches of read_tag.
last_uid_after_poll_keeps(uid_str, last) ==
    IF is_new_tag(uid_str, last) THEN uid_str ELSE last

last_uid_after_poll_not_recorded(uid_str, last) ==
    IF uid_str = None \/ uid_str = <<>> THEN None ELSE last

last_uid_after_poll(uid_str, last) ==
    IF is_new_tag(uid_str, last) THEN uid_str
    ELSE IF uid_str = None \/ uid_str = <<>> THEN None
    ELSE last

\* req_err, ac_err: rfid.request() / rfid.anticoll() report an error;
\* rd_fail: which rfid.read of _read_pages reports an error (0: none).
read_tag(req_err, ac_err, rd_fail) ==
    LET seen == rfid /\ ~req_err /\ ~ac_err
        uid_bytes == IF seen THEN TagUID(field) ELSE <<>>
        uid_str == IF seen THEN uid_to_str(uid_bytes) ELSE None
        new == rfid /\ is_new_tag(uid_str, last_uid)
        r == read_ndef_text(uid_bytes, mem, rd_fail)
        detect == IF ~rfid THEN <<>>
                  ELSE IF req_err THEN <<Call("request", 0, <<>>, FALSE)>>
                  ELSE IF ac_err
                      THEN <<Call("request", 0, <<>>, TRUE), Call("anticoll", 0, <<>>, FALSE)>>
                  ELSE <<Call("request", 0, <<>>, TRUE), Call("anticoll", 0, <<>>, TRUE),
                         Call("stop_crypto", 0, <<>>, TRUE)>>
    IN  /\ field = 0 => req_err
        /\ ~new => rd_fail = 0
        /\ op' = "poll"
        /\ prev_last_uid' = last_uid
        /\ prev_observed' = observed
        /\ prev2_observed' = prev_observed
        /\ prev_polled' = polled
        /\ polled' = IF seen THEN field ELSE 0
        /\ observed' = uid_str
        /\ last_uid' = IF rfid THEN last_uid_after_poll(uid_str, last_uid) ELSE last_uid
        /\ ret_uid' = IF new THEN uid_str ELSE None
        /\ ret_text' = IF new THEN r.text ELSE None
        /\ calls' = IF new THEN detect \o r.calls ELSE detect
        /\ ret_ok' = FALSE
        /\ UNCHANGED <<rfid, field, mem, wr_text, wr_before>>
        /\ UNCHANGED <<codecVars, threadVars, stepVars, playerVars, sectorVars, argVars>>

(***************************************************************************)
(* Reader.write_text and the page writer.                                  *)
(***************************************************************************)
\* Reader._write_ntag_page: one WRITE (0xA2) command; ack is whether the
\* tag answered with the 4-bit ACK.
write_ntag_page(page_num, data, ack) ==
    IF Len(data) # 4 THEN [ok |-> FALSE, calls |-> <<>>]
    ELSE [ok |-> ack, calls |-> <<Call("write", page_num, data, ack)>>]

\* `page_count = (len(data) + 3) // 4`
pages_needed_whole_only(data) == Len(data) \div 4

pages_needed(data) == (Len(data) + 3) \div 4

\* `if not success: return False`
page_written_unchecked(result) == TRUE

page_written(result) == result.ok

\* Reader._write_pages.  wr_fail = k > 0: the k-th page write is not
\* acknowledged; a page the tag does not have is never acknowledged.  landed:
\* the unacknowledged page was stored all the same (the ACK was lost).
\* The result holds the return value, the calls issued and the tag's bytes
\* afterwards.
write_pages(memory, data, start_page, wr_fail, landed) ==
    LET page_count == pages_needed(data)
        chunk(i) == Slice(data, i * 4, i * 4 + 4)
        page_data(i) == IF Len(chunk(i)) < 4
                           THEN chunk(i) \o Zeros(4 - Len(chunk(i)))
                           ELSE chunk(i)
        exists(i) == 4 * (start_page + i) + 4 <= Len(memory)
        result(i) == write_ntag_page(start_page + i, page_data(i),
                                     i + 1 # wr_fail /\ exists(i))
        naks == {i \in 0..(page_count - 1) : ~page_written(result(i))}
        failed == naks # {}
        stop == IF failed THEN CHOOSE i \in naks : \A j \in naks : i <= j ELSE page_count
        \* pages 0..stop-1 were acknowledged; page `stop` was attempted
        attempted == IF failed THEN stop + 1 ELSE page_count
        \* the tag stored the pages it acknowledged, and the unacknowledged
        \* one when only the ACK was lost
        kept(i) == result(i).ok \/ (i + 1 = wr_fail /\ landed /\ exists(i))
        page_after(i) == IF i < attempted /\ kept(i) THEN page_data(i)
                         ELSE Slice(memory, 4 * (start_page + i), 4 * (start_page + i) + 4)
        touched == Concat([k \in 1..attempted |-> page_after(k - 1)])
    IN  [ok |-> ~failed,
         calls |-> Concat([k \in 1..attempted |-> result(k - 1).calls]),
         memory |-> Slice(memory, 0, 4 * start_page) \o touched
                    \o SliceFrom(memory, 4 * start_page + Len(touched))]

\* `(error, _) = request()` / `(error, uid) = anticoll()`: write_text goes on
\* only when neither reports an error.
write_text_tag_present_ignores_anticoll(req_err, ac_err) == ~req_err

write_text_tag_present(req_err, ac_err) == ~req_err /\ ~ac_err

\* Everything write_text does but for self.last_uid.
write_text_effects(text, lang_code, req_err, ac_err, wr_fail, landed) ==
    LET present == write_text_tag_present(req_err, ac_err)
        uid == TagUID(field)
        ndef_message == create_text_record(text, lang_code)
        encoded == ndef_message # None /\ ndef_message # <<>>
        tlv_data == create_tlv_wrapper(ndef_message)
        w == write_pages(mem, tlv_data, TAG_NDEF_START_PAGE, wr_fail, landed)
        detect == IF req_err THEN <<Call("request", 0, <<>>, FALSE)>>
                  ELSE <<Call("request", 0, <<>>, TRUE), Call("anticoll", 0, <<>>, ~ac_err)>>
        select == <<Call("select_tag", 0, uid, TRUE)>>
    IN  /\ field = 0 => req_err
        /\ op' = "write"
        /\ prev_last_uid' = last_uid
        /\ IF ~rfid
              THEN /\ ret_ok' = FALSE /\ calls' = <<>> /\ mem' = mem
           ELSE IF ~present
              THEN /\ ret_ok' = FALSE /\ calls' = detect /\ mem' = mem
           ELSE IF ~encoded
              THEN /\ ret_ok' = FALSE /\ calls' = detect \o select /\ mem' = mem
           ELSE /\ ret_ok' = w.ok
                /\ calls' = detect \o select \o w.calls
                            \o <<Call("stop_crypto", 0, <<>>, TRUE)>>
                /\ mem' = w.memory
        /\ ret_uid' = None /\ ret_text' = None
        /\ UNCHANGED <<rfid, field, observed, prev_observed, prev2_observed,
                       polled, prev_polled>>
        /\ UNCHANGED <<codecVars, threadVars, stepVars, playerVars, sectorVars, argVars>>

\* A version of write_text that records the written tag as seen.
write_text_marks_seen(text, lang_code, req_err, ac_err, wr_fail, landed) ==
    /\ write_text_effects(text, lang_code, req_err, ac_err, wr_fail, landed)
    /\ last_uid' = IF rfid /\ ~req_err /\ ~ac_err THEN uid_to_str(TagUID(field)) ELSE last_uid

\* Reader.write_text
write_text(text, lang_code, req_err, ac_err, wr_fail, landed) ==
    /\ write_text_effects(text, lang_code, req_err, ac_err, wr_fail, landed)
    /\ UNCHANGED last_uid

(***************************************************************************)
(* The reader's surroundings: tags come and go.                            *)
(***************************************************************************)
\* A tag's memory with `data` stored from the first NDEF page on.
MemImage(data) ==
    [b \in 1..(TagPages * 4) |->
        IF b > 4 * TAG_NDEF_START_PAGE /\ b - 4 * TAG_NDEF_START_PAGE <= Len(data)
           THEN data[b - 4 * TAG_NDEF_START_PAGE] ELSE 0]

\* What a tag put on the reader may hold: nothing (all zero), the text "Hi"
\* written by another device, a terminator only.
TagImages ==
    {MemImage(<<>>),
     MemImage(<<3, 9, 209, 1, 5, 84, 2, 101, 110, 72, 105, 254>>),
     MemImage(<<254>>)}

PlaceTag(tag, image) ==
    /\ field = 0
    /\ field' = tag
    /\ mem' = image
    /\ op' = "none"
    /\ ret_uid' = None /\ ret_text' = None /\ ret_ok' = FALSE /\ calls' = <<>>
    /\ UNCHANGED <<rfid, last_uid, observed, prev_last_uid, prev_observed,
                   prev2_observed, polled, prev_polled, wr_text, wr_before>>
    /\ UNCHANGED <<codecVars, threadVars, stepVars, playerVars, sectorVars, argVars>>

RemoveTag ==
    /\ field # 0
    /\ field' = 0
    /\ mem' = <<>>
    /\ op' = "none"
    /\ ret_uid' = None /\ ret_text' = None /\ ret_ok' = FALSE /\ calls' = <<>>
    /\ UNCHANGED <<rfid, last_uid, observed, prev_last_uid, prev_observed,
                   prev2_observed, polled, prev_polled, wr_text, wr_before>>
    /\ UNCHANGED <<codecVars, threadVars, stepVars, playerVars, sectorVars, argVars>>

\* Texts handed to write_text: "Hi" and "i".
WriteTexts == {<<72, 105>>, <<105>>}

\* Language codes handed to write_text: "en", and one that is not ASCII and
\* makes the encoder fail.
WriteLangs == {LangEn, <<233>>}

ReadChunks == (TAG_NDEF_PAGE_COUNT + 3) \div 4

\* Pages the write of "Hi" touches.
MaxWritePages == (Len(create_tlv_wrapper(create_text_record(<<72, 105>>, LangEn))) + 3) \div 4

(***************************************************************************)
(* Inputs of the codec.                                                    *)
(***************************************************************************)
\* ' ', 'H', 'i', e-acute (2 bytes of UTF-8), the euro sign (3 bytes)
Alphabet == {32, 72, 105, 233, 8364}

\* Lengths around the encoder's limits: with a 2-byte language code the
\* record is 7 bytes longer than the text, the TLV length turns to its long
\* form at 255, and the payload stops fitting one byte at 253 text bytes.
LongTextLens == {247, 248, 251, 252, 253}

ShortTexts == UNION {[1..k -> Alphabet] : k \in 0..MaxTextLen}
LongTexts == {[i \in 1..n |-> 72] : n \in LongTextLens}
Texts == ShortTexts \cup LongTexts

Langs == {<<>>, LangEn}

(***************************************************************************)
(* The state each part of the model rests in while another part runs.      *)
(***************************************************************************)
CodecIdle ==
    /\ c_text = <<>> /\ c_lang = <<>> /\ c_stage = "idle"
    /\ c_record = None /\ c_tlv = None /\ c_msg = None /\ c_out = None
    /\ c_btlv = None

ReaderIdle ==
    /\ rfid = FALSE /\ last_uid = None /\ field = 0 /\ mem = <<>> /\ op = "none"
    /\ ret_uid = None /\ ret_text = None /\ ret_ok = FALSE /\ calls = <<>>
    /\ observed = NoPoll /\ prev_last_uid = None /\ prev_observed = NoPoll
    /\ prev2_observed = NoPoll
    /\ polled = 0 /\ prev_polled = 0 /\ wr_text = None /\ wr_before = None

ThreadsIdle ==
    /\ m_pc = "idle" /\ m_page = 0 /\ w_pc = "idle" /\ w_page = 0 /\ bus = <<>>

\* AudioPlayer.__init__
PlayerFields(playlist, index, is_paused, is_playing) ==
    [playlist |-> playlist, index |-> index, paused |-> is_paused, playing |-> is_playing]

PlayerIdle ==
    /\ current_playlist = <<>> /\ current_track_index = -1
    /\ paused = FALSE /\ playing = FALSE
    /\ p_op = "none" /\ p_ret = None /\ p_mixer = <<>>
    /\ p_before = PlayerFields(<<>>, -1, FALSE, FALSE) /\ p_prev_op = "none"
    /\ p_before2 = PlayerFields(<<>>, -1, FALSE, FALSE)

StepsIdle ==
    /\ sc_pc = "idle" /\ sc_idx = 0 /\ sc_iter = 0 /\ sc_prev_idx = -1 /\ sc_reads = {}

ParseIdle ==
    /\ a_layout = NoLayout /\ a_raw = None /\ a_message = None /\ a_parsed = None

ArgsIdle ==
    /\ a_start = 0 /\ a_count = 0 /\ a_data = <<>> /\ a_text = <<>> /\ a_payload = None
    /\ ParseIdle

SectorIdle ==
    /\ start_block = 0 /\ block_count = 0 /\ blocks_mem = <<>> /\ s_op = "none"
    /\ s_calls = <<>> /\ s_payload = None /\ s_success = FALSE /\ s_text = <<>> /\ s_decoded = None

(***************************************************************************)
(* The codec pipeline: encode, wrap, scan, decode, one function per step.  *)
(***************************************************************************)
CodecInit ==
    /\ c_text \in Texts /\ c_lang \in Langs /\ c_stage = "input"
    /\ c_record = None /\ c_tlv = None /\ c_msg = None /\ c_out = None
    /\ c_btlv = NotBuilt
    /\ ReaderIdle /\ ThreadsIdle /\ StepsIdle /\ PlayerIdle /\ SectorIdle /\ ArgsIdle

Encode ==
    /\ c_stage = "input"
    /\ c_record' = create_text_record(c_text, c_lang)
    /\ c_stage' = IF c_record' = None THEN "rejected" ELSE "encoded"
    /\ UNCHANGED <<c_text, c_lang, c_tlv, c_msg, c_out, c_btlv>>
    /\ UNCHANGED <<readerVars, threadVars, stepVars, playerVars, sectorVars, argVars>>

Wrap ==
    /\ c_stage = "encoded"
    /\ c_tlv' = create_tlv_wrapper(c_record)
    /\ c_stage' = "wrapped"
    /\ UNCHANGED <<c_text, c_lang, c_record, c_msg, c_out, c_btlv>>
    /\ UNCHANGED <<readerVars, threadVars, stepVars, playerVars, sectorVars, argVars>>

Unwrap ==
    /\ c_stage = "wrapped"
    /\ c_msg' = tlv_scan(c_tlv)
    /\ c_stage' = "unwrapped"
    /\ UNCHANGED <<c_text, c_lang, c_record, c_tlv, c_out, c_btlv>>
    /\ UNCHANGED <<readerVars, threadVars, stepVars, playerVars, sectorVars, argVars>>

Decode ==
    /\ c_stage = "unwrapped"
    /\ c_out' = IF c_msg = None THEN None ELSE parse_text_record(c_msg)
    /\ c_stage' = "decoded"
    /\ UNCHANGED <<c_text, c_lang, c_record, c_tlv, c_msg, c_btlv>>
    /\ UNCHANGED <<readerVars, threadVars, stepVars, playerVars, sectorVars, argVars>>

\* write_tag.py's encoder on the same text and language.
Build ==
    /\ c_btlv = NotBuilt
    /\ c_btlv' = build_text_ndef_tlv(c_text, c_lang)
    /\ UNCHANGED <<c_text, c_lang, c_stage, c_record, c_tlv, c_msg, c_out>>
    /\ UNCHANGED <<readerVars, threadVars, stepVars, playerVars, sectorVars, argVars>>

CodecNext == Encode \/ Wrap \/ Unwrap \/ Decode \/ Build

SpecCodec == CodecInit /\ [][CodecNext]_vars

(***************************************************************************)
(* C1 -- round trip.                                                       *)
(***************************************************************************)
\* The texts C1 speaks of: language "en", at most 255 - (2 + len(language))
\* bytes of UTF-8.
RoundTripInput ==
    /\ c_lang = LangEn
    /\ Len(utf8_encode(c_text)) <= 255 - (2 + Len(c_lang))

\* C1 as stated: for every text t of at most 255-(2+len(language)) bytes,
\* language "en", encoding, wrapping, unwrapping and decoding returns t with
\* its leading and trailing whitespace trimmed.
C1_RoundTripAlwaysText ==
    (c_stage = "decoded" /\ RoundTripInput) => c_out = strip(c_text)

\* C1 amended: the round trip returns the trimmed text when that is not
\* empty, and absence (None) when the text is empty or only whitespace.
C1_RoundTrip ==
    (c_stage = "decoded" /\ RoundTripInput) =>
        c_out = (IF strip(c_text) = <<>> THEN None ELSE strip(c_text))

\* A text with surrounding whitespace and a multi-byte character has gone
\* through the whole pipeline and come back trimmed.
C1_Witness ==
    /\ c_stage = "decoded" /\ RoundTripInput
    /\ c_text = <<32, 233, 32>>
    /\ c_out = <<233>>

(***************************************************************************)
(* The Reader driven by polls and write requests, one at a time.           *)
(***************************************************************************)
Init ==
    /\ rfid \in BOOLEAN
    /\ last_uid = None /\ field = 0 /\ mem = <<>> /\ op = "none"
    /\ ret_uid = None /\ ret_text = None /\ ret_ok = FALSE /\ calls = <<>>
    /\ observed = NoPoll /\ prev_last_uid = None /\ prev_observed = NoPoll
    /\ prev2_observed = NoPoll
    /\ polled = 0 /\ prev_polled = 0 /\ wr_text = None /\ wr_before = None
    /\ CodecIdle /\ ThreadsIdle /\ StepsIdle /\ PlayerIdle /\ SectorIdle /\ ArgsIdle

\* The transport's answers are inputs; an answer that is never asked for (an
\* anticollision error after a failed request, a page fault after a failed
\* anticollision) is left at "no error".
Poll ==
    \E req_err, ac_err \in BOOLEAN, rd_fail \in 0..ReadChunks :
        /\ req_err => ~ac_err
        /\ (req_err \/ ac_err) => rd_fail = 0
        /\ read_tag(req_err, ac_err, rd_fail)

Write ==
    \E text \in WriteTexts, lang_code \in WriteLangs, req_err, ac_err, landed \in BOOLEAN,
       wr_fail \in 0..MaxWritePages :
        /\ req_err => ~ac_err
        /\ (req_err \/ ac_err \/ lang_code # LangEn) => wr_fail = 0
        /\ wr_fail = 0 => ~landed
        /\ write_text(text, lang_code, req_err, ac_err, wr_fail, landed)
        /\ UNCHANGED <<wr_text, wr_before>>

Place == \E tag \in 1..NTags, image \in TagImages : PlaceTag(tag, image)

Next == Poll \/ Write \/ Place \/ RemoveTag

Spec == Init /\ [][Next]_vars

(***************************************************************************)
(* What an operation's call log shows.                                     *)
(***************************************************************************)
PageReads(log) == SelectSeq(log, LAMBDA c : c.call = "read")
PageWrites(log) == SelectSeq(log, LAMBDA c : c.call = "write")
Reported(log, name) == \E i \in 1..Len(log) : log[i].call = name /\ ~log[i].ok

\* The text stored in the configured page range of the tag in the field.
StoredText ==
    LET raw == Slice(mem, 4 * TAG_NDEF_START_PAGE,
                     4 * (TAG_NDEF_START_PAGE + TAG_NDEF_PAGE_COUNT))
    IN  IF tlv_scan(raw) = None THEN None ELSE parse_text_record(tlv_scan(raw))

(***************************************************************************)
(* C2 -- a tag that stays on the reader is reported once.                  *)
(***************************************************************************)
\* C2: when a poll observes the tag the poll before it observed, it returns
\* no UID and no text, reads no page and leaves last_uid as it was; a poll
\* that observes a tag the poll before did not observe reports it.
C2_RepeatIsNoOp ==
    (op = "poll" /\ observed # None) =>
        /\ prev_observed = observed =>
              /\ ret_uid = None /\ ret_text = None
              /\ PageReads(calls) = <<>>
              /\ last_uid = prev_last_uid
        /\ prev_observed # observed => ret_uid = observed

\* The tag reported by one poll is still there at the next: nothing is
\* returned and nothing is read.
C2_Witness ==
    /\ op = "poll" /\ field = 1
    /\ observed = uid_to_str(TagUID(1)) /\ prev_observed = observed
    /\ ret_uid = None /\ last_uid = observed
    /\ Len(calls) = 3

(***************************************************************************)
(* C3 -- absence clears last_uid.                                          *)
(***************************************************************************)
\* C3: a poll that observes no tag leaves last_uid None and returns no UID;
\* a tag observed by the poll after such a poll is reported as new.
C3_AbsenceClears ==
    (op = "poll" /\ rfid) =>
        /\ observed = None => (last_uid = None /\ ret_uid = None /\ ret_text = None)
        /\ (prev_observed = None /\ observed # None) =>
              (ret_uid = observed /\ last_uid = observed)

\* Three polls: tag 1 is reported, then no tag is observed, then tag 1 is
\* observed again and reported again.
C3_Witness ==
    /\ op = "poll" /\ field = 1
    /\ prev2_observed = uid_to_str(TagUID(1))
    /\ prev_observed = None /\ prev_last_uid = None
    /\ observed = uid_to_str(TagUID(1))
    /\ ret_uid = observed /\ last_uid = observed

(***************************************************************************)
(* C4 -- a new tag is read once and remembered.                            *)
(***************************************************************************)
\* C4: a poll that observes a tag whose UID string differs from last_uid
\* calls the page reader once (one ascending run of reads from the start
\* page), returns the UID as the decimal values of its bytes joined, with the
\* text decoded from the pages read or None, and sets last_uid to that UID.
C4_NewTagReported ==
    (op = "poll" /\ observed # None /\ observed # prev_last_uid) =>
        LET reads == PageReads(calls)
        IN  /\ Len(reads) >= 1
            /\ \A k \in 1..Len(reads) :
                  reads[k].page = TAG_NDEF_START_PAGE + 4 * (k - 1)
            /\ Len(reads) <= ReadChunks
            /\ \A k \in 1..(Len(reads) - 1) : reads[k].ok
            /\ Len(reads) < ReadChunks => ~reads[Len(reads)].ok
            /\ ret_uid = observed
            /\ last_uid = observed
            /\ field = 1 => ret_uid = <<49, 50, 51, 52, 53>>
            /\ ret_text = (IF Reported(calls, "read") THEN None ELSE StoredText)

\* The "Hi" tag is put on the idle reader and reported with its text.
C4_Witness ==
    /\ op = "poll" /\ field = 1 /\ prev_last_uid = None
    /\ ret_uid = <<49, 50, 51, 52, 53>> /\ last_uid = ret_uid
    /\ ret_text = <<72, 105>>
    /\ Len(PageReads(calls)) = ReadChunks

(***************************************************************************)
(* C5 -- a write leaves last_uid alone.                                    *)
(***************************************************************************)
\* C5: after write_text, whatever its outcome, last_uid is what it was
\* before the call.
C5_WriteKeepsLastUid == op = "write" => last_uid = prev_last_uid

\* A successful write to a tag that no poll has reported: last_uid is still
\* None.
C5_Witness ==
    /\ op = "write" /\ ret_ok /\ field # 0
    /\ last_uid = None /\ prev_last_uid = None
    /\ Len(PageWrites(calls)) = 3

(***************************************************************************)
(* C6 -- no tag, no write.                                                 *)
(***************************************************************************)
\* C6: when the request or the anticollision of write_text reports an error,
\* write_text returns False and issues no page write; a write that returns
\* True has seen both succeed.
C6_NoTagNoWrite ==
    op = "write" =>
        /\ (Reported(calls, "request") \/ Reported(calls, "anticoll")) =>
              (~ret_ok /\ PageWrites(calls) = <<>>)
        /\ (ret_ok \/ PageWrites(calls) # <<>>) =>
              \E i, j \in 1..Len(calls) :
                  /\ i < j /\ j < Len(calls)
                  /\ calls[i].call = "request" /\ calls[i].ok
                  /\ calls[j].call = "anticoll" /\ calls[j].ok

\* The request succeeds, the anticollision fails: the write is refused.
C6_Witness ==
    /\ op = "write" /\ ~ret_ok /\ field # 0
    /\ Len(calls) = 2 /\ calls[1].call = "request" /\ calls[1].ok
    /\ calls[2].call = "anticoll" /\ ~calls[2].ok

(***************************************************************************)
(* The sectored adapter: block reader of src/rfid_reader.py.               *)
(***************************************************************************)
BLOCK_SIZE == 16
TAG_AUTH_KEY == [i \in 1..6 |-> 255]

\* The card on the sectored reader.
CardUID == TagUID(1)

\* `if block >= 0 and (block + 1) % 4 == 0: continue` in Reader._read_blocks
reader_skips_nothing(block) == FALSE

reader_skips(block) == block >= 0 /\ (block + 1) % 4 = 0

\* list(range(TAG_NDEF_START_BLOCK, TAG_NDEF_START_BLOCK + TAG_NDEF_BLOCK_COUNT))
\* in Reader._read_ndef_text_payload
block_range == [i \in 1..Max(block_count, 0) |-> start_block + i - 1]

\* The calls one pass of a block loop issues.  `n` blocks are to be touched;
\* auth_fail = k > 0: the authentication before the k-th of them reports an
\* error; acc_fail = k > 0: the k-th read or write reports an error.  The loop
\* leaves at the first of the two, `loop_stop`; n + 1 when neither happens.
loop_stop_ignores_auth(n, auth_fail, acc_fail) ==
    IF acc_fail \in 1..n THEN acc_fail ELSE n + 1

loop_stop(n, auth_fail, acc_fail) ==
    LET auth_stop == IF auth_fail \in 1..n THEN auth_fail ELSE n + 1
        acc_stop == IF acc_fail \in 1..n THEN acc_fail ELSE n + 1
    IN  Min(auth_stop, acc_stop)

\* The block an authentication call is given before `block` is accessed:
\* util.auth(self.rfid.auth_a, block) / util.do_auth(block, force=True)
auth_target_sector_start(block) == block - (block % 4)

auth_target(block) == block

\* Reader._read_blocks: the returned bytes (or None) and the calls issued.
read_blocks(uid_bytes, blocks, memory, auth_fail, rd_fail) ==
    IF blocks = <<>> THEN [payload |-> None, calls |-> <<>>]
    ELSE LET touched == SelectSeq(blocks, LAMBDA b : ~reader_skips(b))
             n == Len(touched)
             stop == loop_stop(n, auth_fail, rd_fail)
             auth(k) == Call("auth", auth_target(touched[k]), <<>>, auth_fail # k)
             read(k) == Call("read", touched[k], <<>>, rd_fail # k)
             \* the pass that leaves the loop at a failed authentication
             \* issues no read
             step(k) == IF k = stop /\ auth_fail = k THEN <<auth(k)>>
                        ELSE <<auth(k), read(k)>>
         IN  [payload |-> IF stop <= n THEN None
                          ELSE Concat([k \in 1..n |-> memory[touched[k] + 1]]),
              calls |-> <<Call("select_tag", -1, uid_bytes, TRUE),
                          Call("set_tag", -1, uid_bytes, TRUE),
                          Call("load_key", -1, TAG_AUTH_KEY, TRUE)>>
                        \o Concat([k \in 1..Min(stop, n) |-> step(k)])
                        \o <<Call("stop_crypto", -1, <<>>, TRUE)>>]

\* Reader._read_ndef_text_payload from `if not raw_bytes` on: the TLV scan and
\* _parse_ndef_text_record, line for line the paged reader's.
decode_payload(raw_bytes) ==
    IF raw_bytes = None \/ raw_bytes = <<>> THEN None
    ELSE LET ndef_message == tlv_scan(raw_bytes)
         IN  IF ndef_message = None THEN None ELSE parse_text_record(ndef_message)

\* Reader._read_ndef_text_payload
read_ndef_text_payload(auth_fail, rd_fail) ==
    LET r == IF block_count <= 0 THEN [payload |-> None, calls |-> <<>>]
             ELSE read_blocks(CardUID, block_range, blocks_mem, auth_fail, rd_fail)
    IN  /\ s_op' = "read"
        /\ s_calls' = r.calls
        /\ s_payload' = r.payload
        /\ s_success' = FALSE
        /\ s_text' = <<>>
        /\ s_decoded' = decode_payload(r.payload)
        /\ UNCHANGED <<start_block, block_count, blocks_mem>>
        /\ UNCHANGED <<codecVars, readerVars, threadVars, stepVars, playerVars, argVars>>

(***************************************************************************)
(* The sectored adapter: block writer of src/write_tag.py.                 *)
(***************************************************************************)
generate_block_sequence == [i \in 1..Max(block_count, 0) |-> start_block + i - 1]

\* build_block_payloads: the (block, data) pairs, or None when the encoder
\* raises.  `buffer[:len(tlv)] = tlv` replaces the head of the zeroed buffer,
\* and the whole buffer when the TLV is the longer of the two.
build_block_payloads(text) ==
    LET tlv == build_text_ndef_tlv(text, LangEn)
        blocks == generate_block_sequence
        data_blocks == SelectSeq(blocks, LAMBDA b : (b + 1) % 4 # 0)
        size == Len(data_blocks) * BLOCK_SIZE
        buffer == IF Len(tlv) <= size THEN tlv \o Zeros(size - Len(tlv)) ELSE tlv
        chunk(k) == Slice(buffer, (k - 1) * BLOCK_SIZE, k * BLOCK_SIZE)
    IN  IF tlv = None THEN None
        ELSE [k \in 1..Len(data_blocks) |->
                 [block |-> data_blocks[k],
                  data |-> chunk(k) \o Zeros(BLOCK_SIZE - Len(chunk(k)))]]

\* write_text_to_tag, from the pass of its loop that finds the card.
\* landed: the block whose write reported an error was stored all the same.
write_text_to_tag(text, auth_fail, wr_fail, landed) ==
    \E block_payloads \in {build_block_payloads(text)} :
    LET raised == build_text_ndef_tlv(text, LangEn) = None
        n == Len(block_payloads)
        stop == loop_stop(n, auth_fail, wr_fail)
        step(k) ==
            LET block == block_payloads[k].block
                data == block_payloads[k].data
                do_auth == Call("do_auth", auth_target(block), <<>>, auth_fail # k)
                write == Call("write", block, data, wr_fail # k)
            IN  IF k = stop /\ auth_fail = k THEN <<do_auth>> ELSE <<do_auth, write>>
        n_stored == IF stop <= n /\ auth_fail # stop /\ landed THEN stop ELSE stop - 1
        stored == {k \in 1..n : k <= n_stored}
    IN  /\ s_op' = "write"
        /\ s_text' = text
        /\ s_payload' = None
        /\ s_decoded' = None
        /\ IF raised
              THEN /\ s_calls' = <<>> /\ s_success' = FALSE /\ blocks_mem' = blocks_mem
           ELSE /\ s_calls' = <<Call("request", -1, <<>>, TRUE),
                                Call("anticoll", -1, <<>>, TRUE),
                                Call("set_tag", -1, CardUID, TRUE),
                                Call("auth", -1, TAG_AUTH_KEY, TRUE)>>
                              \o Concat([k \in 1..Min(stop, n) |-> step(k)])
                              \o <<Call("stop_crypto", -1, <<>>, TRUE)>>
                /\ s_success' = (stop > n)
                /\ blocks_mem' =
                      [b \in 1..Len(blocks_mem) |->
                          IF \E k \in stored : block_payloads[k].block = b - 1
                             THEN block_payloads[CHOOSE k \in stored :
                                                     block_payloads[k].block = b - 1].data
                             ELSE blocks_mem[b]]
        /\ UNCHANGED <<start_block, block_count>>
        /\ UNCHANGED <<codecVars, readerVars, threadVars, stepVars, playerVars, argVars>>

(***************************************************************************)
(* The sectored adapter under every configured block range.                *)
(***************************************************************************)
\* A card as it comes: every byte of block b tells b and its offset.
FactoryCard ==
    [b \in 1..CardBlocks |-> [i \in 1..BLOCK_SIZE |-> (BLOCK_SIZE * (b - 1) + i) % 256]]

\* Texts handed to write_text_to_tag: "Hi", and one whose TLV needs two blocks.
SectorTexts == {<<72, 105>>, [i \in 1..14 |-> 65 + i]}

SectorInit ==
    /\ start_block \in 0..MaxStartBlock
    /\ block_count \in 0..MaxBlockCount
    /\ blocks_mem = FactoryCard
    /\ s_op = "none" /\ s_calls = <<>> /\ s_payload = None /\ s_success = FALSE
    /\ s_text = <<>> /\ s_decoded = None
    /\ CodecIdle /\ ReaderIdle /\ ThreadsIdle /\ StepsIdle /\ PlayerIdle /\ ArgsIdle

\* At most one call of an operation reports an error: the loops leave at the
\* first.
SectorRead ==
    \E auth_fail, rd_fail \in 0..MaxBlockCount :
        /\ auth_fail = 0 \/ rd_fail = 0
        /\ auth_fail <= block_count /\ rd_fail <= block_count
        /\ read_ndef_text_payload(auth_fail, rd_fail)

SectorWrite ==
    \E text \in SectorTexts, auth_fail, wr_fail \in 0..MaxBlockCount, landed \in BOOLEAN :
        /\ auth_fail = 0 \/ wr_fail = 0
        /\ auth_fail <= block_count /\ wr_fail <= block_count
        /\ landed => wr_fail # 0
        /\ write_text_to_tag(text, auth_fail, wr_fail, landed)

SectorNext == SectorRead \/ SectorWrite

SpecSectored == SectorInit /\ [][SectorNext]_vars

(***************************************************************************)
(* What a sectored operation's call log shows.                             *)
(***************************************************************************)
\* The blocks of the configured range that are no sector trailers, in order.
DataBlocks == SelectSeq(block_range, LAMBDA b : (b + 1) % 4 # 0)

IsAccess(c) == c.call \in {"read", "write"}

\* An authentication call made for a block (util.auth(auth_a, key) of the
\* writer names no block).
IsBlockAuth(c) == c.call = "do_auth" \/ (c.call = "auth" /\ c.page >= 0)

\* The blocks the last operation read or wrote, in the order of the calls.
Accessed ==
    LET acc == SelectSeq(s_calls, IsAccess) IN [k \in 1..Len(acc) |-> acc[k].page]

IsPrefix(a, b) == Len(a) <= Len(b) /\ \A k \in 1..Len(a) : a[k] = b[k]

SectorCompleted ==
    \/ s_op = "read" /\ s_payload # None
    \/ s_op = "write" /\ s_success

Sector(b) == b \div 4

(***************************************************************************)
(* C8 -- the sectored adapter touches the data blocks, in order.           *)
(***************************************************************************)
\* C8: for every configured start block and block count, an operation that
\* completes reads (writes) exactly the blocks of the range that are no
\* sector trailers, each once, in increasing order, and one that is cut
\* short a leading part of them; no trailer block is read, written or
\* changed; the bytes a read returns are those blocks' bytes concatenated in
\* that order.
C8_DataBlocksInOrder ==
    s_op # "none" =>
        /\ IsPrefix(Accessed, DataBlocks)
        /\ SectorCompleted => Accessed = DataBlocks
        /\ \A k \in 1..Len(Accessed) : (Accessed[k] + 1) % 4 # 0
        /\ \A b \in 0..(CardBlocks - 1) :
              (b + 1) % 4 = 0 => blocks_mem[b + 1] = FactoryCard[b + 1]
        /\ (s_op = "read" /\ s_payload # None) =>
              s_payload = Concat([k \in 1..Len(DataBlocks) |-> blocks_mem[DataBlocks[k] + 1]])

\* Blocks 2..7 are configured; "Hi" was written and is read back: the bytes
\* of blocks 2, 4, 5, 6, with the trailers 3 and 7 as they were.
C8_Witness ==
    /\ s_op = "read" /\ start_block = 2 /\ block_count = 6
    /\ Accessed = <<2, 4, 5, 6>>
    /\ s_payload = build_text_ndef_tlv(<<72, 105>>, LangEn) \o Zeros(4 * BLOCK_SIZE - 12)
    /\ blocks_mem[4] = FactoryCard[4] /\ blocks_mem[8] = FactoryCard[8]

(***************************************************************************)
(* C9 -- a failed authentication aborts the operation.                     *)
(***************************************************************************)
\* C9: when an authentication of a read reports an error, the read returns
\* None and reads no block afterwards; when one of a write does, the write
\* reports failure and writes no block afterwards.
C9_AuthFailureAborts ==
    \A i \in 1..Len(s_calls) :
        (IsBlockAuth(s_calls[i]) /\ ~s_calls[i].ok) =>
            /\ \A j \in (i + 1)..Len(s_calls) :
                  ~IsAccess(s_calls[j]) /\ ~IsBlockAuth(s_calls[j])
            /\ s_op = "read" => s_payload = None
            /\ s_op = "write" => ~s_success

\* Blocks 4 and 5 are read, the authentication for block 6 fails: nothing is
\* returned and block 6 is not read.
C9_Witness ==
    /\ s_op = "read" /\ start_block = 4 /\ block_count >= 3
    /\ Accessed = <<4, 5>>
    /\ \E i \in 1..Len(s_calls) :
          IsBlockAuth(s_calls[i]) /\ s_calls[i].page = 6 /\ ~s_calls[i].ok
    /\ s_payload = None

web_tlv_data == create_tlv_wrapper(create_text_record(<<72, 105>>, LangEn))

\* A transport call on the shared driver; `first`: it is the first call of
\* the operation (read_tag, write_text) that issues it.
issue(thread, name, first) ==
    LET c == [thread |-> thread, call |-> name, first |-> first]
    IN  bus' = IF bus = <<>> THEN <<c>> ELSE <<bus[Len(bus)], c>>

\* What a step of either thread leaves alone.
conc_frame ==
    /\ UNCHANGED <<rfid, field, op, ret_uid, ret_text, ret_ok, calls, observed,
                   prev_last_uid, prev_observed, prev2_observed,
                   polled, prev_polled, wr_text, wr_before>>
    /\ UNCHANGED <<codecVars, playerVars, stepVars, sectorVars, argVars>>

\* read_tag in the main loop: `(error, _) = self.rfid.request()`
main_request(req_err) ==
    /\ m_pc = "idle"
    /\ field = 0 => req_err
    /\ issue("main", "request", TRUE)
    /\ m_pc' = IF req_err THEN "absent" ELSE "anticoll"
    /\ UNCHANGED <<m_page, w_pc, w_page, last_uid, mem>>
    /\ conc_frame

\* `(error, uid) = self.rfid.anticoll()`
main_anticoll(ac_err) ==
    /\ m_pc = "anticoll"
    /\ issue("main", "anticoll", FALSE)
    /\ m_pc' = IF ac_err THEN "absent" ELSE "stop_crypto"
    /\ UNCHANGED <<m_page, w_pc, w_page, last_uid, mem>>
    /\ conc_frame

\* `self.rfid.stop_crypto()`
main_stop_crypto ==
    /\ m_pc = "stop_crypto"
    /\ issue("main", "stop_crypto", FALSE)
    /\ m_pc' = "present"
    /\ UNCHANGED <<m_page, w_pc, w_page, last_uid, mem>>
    /\ conc_frame

\* The branches on uid_str and self.last_uid.
main_decide ==
    /\ m_pc \in {"absent", "present"}
    /\ LET uid_str == IF m_pc = "present" THEN uid_to_str(TagUID(field)) ELSE None
           new == is_new_tag(uid_str, last_uid)
       IN  /\ last_uid' = last_uid_after_poll(uid_str, last_uid)
           /\ m_pc' = IF new /\ TAG_NDEF_PAGE_COUNT > 0 THEN "read" ELSE "idle"
           /\ m_page' = IF new /\ TAG_NDEF_PAGE_COUNT > 0 THEN TAG_NDEF_START_PAGE ELSE 0
    /\ UNCHANGED <<w_pc, w_page, bus, mem>>
    /\ conc_frame

\* One pass of _read_pages' loop: `error, data = self.rfid.read(current_page)`
main_read(rd_err) ==
    /\ m_pc = "read"
    /\ issue("main", "read", FALSE)
    /\ IF rd_err \/ m_page + 4 >= TAG_NDEF_START_PAGE + TAG_NDEF_PAGE_COUNT
          THEN m_pc' = "idle" /\ m_page' = 0
          ELSE m_pc' = "read" /\ m_page' = m_page + 4
    /\ UNCHANGED <<w_pc, w_page, last_uid, mem>>
    /\ conc_frame

\* write_text in the request thread: `(error, _) = self.rfid.request()`
web_request(req_err) ==
    /\ w_pc = "idle"
    /\ field = 0 => req_err
    /\ issue("web", "request", TRUE)
    /\ w_pc' = IF req_err THEN "idle" ELSE "anticoll"
    /\ UNCHANGED <<m_pc, m_page, w_page, last_uid, mem>>
    /\ conc_frame

\* `(error, uid) = self.rfid.anticoll()`
web_anticoll(ac_err) ==
    /\ w_pc = "anticoll"
    /\ issue("web", "anticoll", FALSE)
    /\ w_pc' = IF ac_err THEN "idle" ELSE "select_tag"
    /\ UNCHANGED <<m_pc, m_page, w_page, last_uid, mem>>
    /\ conc_frame

\* `self.rfid.select_tag(uid)`, the sleep and the encoding of the text
web_select_tag ==
    /\ w_pc = "select_tag"
    /\ issue("web", "select_tag", FALSE)
    /\ w_pc' = "write" /\ w_page' = 0
    /\ UNCHANGED <<m_pc, m_page, last_uid, mem>>
    /\ conc_frame

\* One pass of _write_pages' loop.
web_write_page(ack) ==
    /\ w_pc = "write"
    /\ LET page_count == (Len(web_tlv_data) + 3) \div 4
           page_num == TAG_NDEF_START_PAGE + w_page
           page_data == Slice(web_tlv_data, w_page * 4, w_page * 4 + 4)
           success == write_ntag_page(page_num, page_data, ack).ok
       IN  /\ issue("web", "write", FALSE)
           /\ mem' = IF success
                        THEN Slice(mem, 0, 4 * page_num) \o page_data
                             \o SliceFrom(mem, 4 * page_num + 4)
                        ELSE mem
           /\ IF ~success \/ w_page + 1 = page_count
                 THEN w_pc' = "stop_crypto" /\ w_page' = 0
                 ELSE w_pc' = "write" /\ w_page' = w_page + 1
    /\ UNCHANGED <<m_pc, m_page, last_uid>>
    /\ conc_frame

\* `self.rfid.stop_crypto()` and the return
web_stop_crypto ==
    /\ w_pc = "stop_crypto"
    /\ issue("web", "stop_crypto", FALSE)
    /\ w_pc' = "idle"
    /\ UNCHANGED <<m_pc, m_page, w_page, last_uid, mem>>
    /\ conc_frame

ConcInit ==
    /\ rfid = TRUE /\ last_uid = None /\ field = 1 /\ mem = MemImage(<<>>)
    /\ op = "none" /\ ret_uid = None /\ ret_text = None /\ ret_ok = FALSE
    /\ calls = <<>> /\ observed = NoPoll /\ prev_last_uid = None
    /\ prev_observed = NoPoll /\ prev2_observed = NoPoll
    /\ polled = 0 /\ prev_polled = 0 /\ wr_text = None /\ wr_before = None
    /\ ThreadsIdle /\ StepsIdle /\ PlayerIdle /\ CodecIdle /\ SectorIdle /\ ArgsIdle

MainStep ==
    \/ \E req_err \in BOOLEAN : main_request(req_err)
    \/ \E ac_err \in BOOLEAN : main_anticoll(ac_err)
    \/ main_stop_crypto
    \/ main_decide
    \/ \E rd_err \in BOOLEAN : main_read(rd_err)

WebStep ==
    \/ \E req_err \in BOOLEAN : web_request(req_err)
    \/ \E ac_err \in BOOLEAN : web_anticoll(ac_err)
    \/ web_select_tag
    \/ \E ack \in BOOLEAN : web_write_page(ack)
    \/ web_stop_crypto

ConcNext == MainStep \/ WebStep

SpecConc == ConcInit /\ [][ConcNext]_vars

(***************************************************************************)
(* C7 -- one tag interaction at a time.                                    *)
(***************************************************************************)
\* A call that continues one thread's operation comes right after a call of
\* the other thread.
Interleaved ==
    /\ Len(bus) = 2
    /\ bus[1].thread # bus[2].thread
    /\ ~bus[2].first

\* C7: at most one tag interaction is in progress at a time; the transport
\* calls of a write by the web thread are never interleaved with those of a
\* poll by the main loop.
C7_OneInteractionAtATime ==
    /\ ~(m_pc # "idle" /\ w_pc # "idle")
    /\ ~Interleaved

(***************************************************************************)
(* C11 -- the sectored writer and texts that do not fit.                   *)
(***************************************************************************)
\* Bytes the configured block range can hold.
SectorCapacity == BLOCK_SIZE * Len(DataBlocks)

\* C11: a write_text_to_tag whose TLV is longer than the bytes of the
\* range's data blocks fails and writes no block.
C11_CapacityChecked ==
    (s_op = "write" /\ Len(build_text_ndef_tlv(s_text, LangEn)) > SectorCapacity) =>
        (~s_success /\ SelectSeq(s_calls, IsAccess) = <<>>)

\* What happens instead: one block is configured, the 24-byte TLV of the
\* longer text is cut to its first 16 bytes, written, and success reported.
C11_Truncated ==
    /\ s_op = "write" /\ s_success /\ block_count = 1 /\ start_block = 4
    /\ Len(build_text_ndef_tlv(s_text, LangEn)) = 24
    /\ Len(SelectSeq(s_calls, IsAccess)) = 1
    /\ blocks_mem[5] = Slice(build_text_ndef_tlv(s_text, LangEn), 0, BLOCK_SIZE)

(***************************************************************************)
(* write_text called with texts around the limits of the encoder and of    *)
(* the configured page range, on a blank tag; polls read the tag back.     *)
(***************************************************************************)
\* Text lengths: "HH"; 118 characters give a TLV of 128 bytes, the whole page
\* range, 119 one of 129; 252 characters give a payload of 255 bytes, 253
\* one of 256.
GivenTextLens == {2, 118, 119, 252, 253}

GivenTexts == {[i \in 1..n |-> 72] : n \in GivenTextLens}

GivenInit ==
    /\ rfid = TRUE /\ last_uid = None /\ field = 1 /\ mem = MemImage(<<>>)
    /\ op = "none" /\ ret_uid = None /\ ret_text = None /\ ret_ok = FALSE
    /\ calls = <<>> /\ observed = NoPoll /\ prev_last_uid = None
    /\ prev_observed = NoPoll /\ prev2_observed = NoPoll
    /\ polled = 0 /\ prev_polled = 0 /\ wr_text = None /\ wr_before = None
    /\ a_text \in GivenTexts
    /\ a_start = 0 /\ a_count = 0 /\ a_data = <<>> /\ a_payload = None
    /\ ParseIdle
    /\ ThreadsIdle /\ StepsIdle /\ PlayerIdle /\ CodecIdle /\ SectorIdle

\* web_server.py's write_nfc: self.rfid_reader.write_text(text, lang_code),
\* while the tag is still blank.
WriteGivenText ==
    \E req_err, ac_err, landed \in BOOLEAN, wr_fail \in 0..MaxWritePages :
        /\ mem = MemImage(<<>>)
        /\ req_err => ~ac_err
        /\ (req_err \/ ac_err) => wr_fail = 0
        /\ wr_fail = 0 => ~landed
        /\ write_text(a_text, LangEn, req_err, ac_err, wr_fail, landed)
        /\ UNCHANGED <<wr_text, wr_before>>

GivenNext == WriteGivenText \/ Poll

SpecWrite == GivenInit /\ [][GivenNext]_vars

\* The record and the TLV write_text builds for its text.
GivenRecord == create_text_record(a_text, LangEn)
GivenTlv == create_tlv_wrapper(GivenRecord)

(***************************************************************************)
(* C12 -- the paged writer and the configured page range.                  *)
(***************************************************************************)
\* C12: a write_text whose TLV is longer than the configured page range
\* returns False without writing a page, and no write_text writes a page at
\* or beyond TAG_NDEF_START_PAGE + TAG_NDEF_PAGE_COUNT.
C12_PageRangeChecked ==
    op = "write" =>
        /\ (GivenRecord # None /\ Len(GivenTlv) > TAG_NDEF_PAGE_COUNT * 4) =>
              (~ret_ok /\ PageWrites(calls) = <<>>)
        /\ \A k \in 1..Len(calls) :
              calls[k].call = "write" =>
                  calls[k].page < TAG_NDEF_START_PAGE + TAG_NDEF_PAGE_COUNT

\* What happens instead: the 119-character text is written to 33 pages, the
\* last of them page 36, and the write returns True.
C12_WroteBeyondRange ==
    /\ op = "write" /\ ret_ok /\ Len(a_text) = 119
    /\ Len(PageWrites(calls)) = 33
    /\ PageWrites(calls)[33].page = TAG_NDEF_START_PAGE + TAG_NDEF_PAGE_COUNT

(***************************************************************************)
(* C13 -- texts the encoder refuses.                                       *)
(***************************************************************************)
\* 1 status byte + language bytes + UTF-8 text bytes
GivenPayloadLen == 1 + Len(LangEn) + Len(utf8_encode(a_text))

\* C13: a payload longer than 255 bytes gives no record and a write_text
\* that returns False without any transport call; a payload of at most 255
\* bytes gives a record.
C13_RefusedBeforeTransport ==
    /\ GivenPayloadLen > 255 <=> GivenRecord = None
    /\ (op = "write" /\ GivenPayloadLen > 255) => (~ret_ok /\ calls = <<>>)

\* What happens instead: the tag is requested, anticollided and selected
\* before the 253-character text is refused.
C13_RefusedAfterSelect ==
    /\ op = "write" /\ ~ret_ok /\ Len(a_text) = 253 /\ GivenRecord = None
    /\ Len(calls) = 3
    /\ calls[1].call = "request" /\ calls[2].call = "anticoll"
    /\ calls[3].call = "select_tag"

(***************************************************************************)
(* C14 -- the bytes of an encoded text.                                    *)
(***************************************************************************)
\* D1, 01, payload length, 'T', status, language bytes, UTF-8 text bytes
ExpectedRecord ==
    LET text_bytes == utf8_encode(c_text)
        payload_length == 1 + Len(c_lang) + Len(text_bytes)
    IN  <<209, 1, payload_length, 84, Len(c_lang) % 64>> \o c_lang \o text_bytes

\* The TLV length field as the paged wrapper writes it.
LengthField(L) == IF L < 255 THEN <<L>> ELSE <<255, L \div 256, L % 256>>

\* A byte string with the zero bytes at its end removed.
Unpadded(b) ==
    LET last == {i \in 1..Len(b) : b[i] # 0}
    IN  IF last = {} THEN <<>>
        ELSE SubSeq(b, 1, CHOOSE i \in last : \A j \in last : j <= i)

Wrapped == c_stage \in {"wrapped", "unwrapped", "decoded"}

Built == c_btlv # NotBuilt /\ c_btlv # None

\* C14: for every text and language an encoder accepts, its TLV is 03, the
\* length field, D1, 01, the payload length, 'T', the status byte
\* len(language) & 0x3F, the language, the UTF-8 text, FE (then padding);
\* "Hi" with "en" gives 03 09 D1 01 05 54 02 65 6E 48 69 FE from the paged
\* and from the sectored writer.
C14_EncodedBytes ==
    /\ Wrapped =>
          /\ c_record = ExpectedRecord
          /\ Unpadded(c_tlv) = <<3>> \o LengthField(Len(c_record)) \o c_record \o <<254>>
    /\ Built => \E length \in {<<Len(ExpectedRecord)>>, LengthField(Len(ExpectedRecord))} :
          c_btlv = <<3>> \o length \o ExpectedRecord \o <<254>>
    /\ (c_text = <<72, 105>> /\ c_lang = LangEn) =>
          /\ Wrapped => c_tlv = <<3, 9, 209, 1, 5, 84, 2, 101, 110, 72, 105, 254>>
          /\ Built => c_btlv = <<3, 9, 209, 1, 5, 84, 2, 101, 110, 72, 105, 254>>

\* "Hi"/"en" has gone through both encoders.
C14_Witness ==
    /\ c_text = <<72, 105>> /\ c_lang = LangEn /\ Wrapped /\ Built
    /\ c_tlv = c_btlv
    /\ Len(c_tlv) = 12

(***************************************************************************)
(* C19 -- what the paged wrapper adds around a message.                    *)
(***************************************************************************)
\* 03, the length bytes, the message, FE: the TLV before padding.
TlvCore(message) == <<3>> \o LengthField(Len(message)) \o message \o <<254>>

\* The least k >= 0 that makes n + k a multiple of unit.
LeastPad(n, unit) == CHOOSE k \in 0..(unit - 1) : (n + k) % unit = 0

\* C19: the wrapper's output is 03, the length bytes, the message, FE and
\* then k zero bytes, k the least number with 0 <= k < 4 that makes the
\* total a multiple of 4; nothing else is added.
C19_WrapAddsOnlyPadding ==
    Wrapped =>
        /\ c_tlv = TlvCore(c_record) \o Zeros(LeastPad(Len(TlvCore(c_record)), 4))
        /\ Len(c_tlv) % 4 = 0

\* A long-form TLV that needed padding has been wrapped.
C19_Witness ==
    /\ Wrapped
    /\ Len(c_record) >= 255
    /\ Len(c_tlv) > Len(TlvCore(c_record))

(***************************************************************************)
(* C20 -- the TLV length field of both writers, read back by the scan.     *)
(***************************************************************************)
\* tlv starts with 03 and the length field of the rule, and the reader's
\* scan of it returns the message.
LengthRecovered(tlv, message) ==
    /\ Len(tlv) >= 1 + Len(LengthField(Len(message)))
    /\ SubSeq(tlv, 2, 1 + Len(LengthField(Len(message)))) = LengthField(Len(message))
    /\ tlv_scan(tlv) = message

\* C20: for every message of length L an encoder produces, each writer
\* emits the single byte L when L < 255 and FF followed by L in 2 bytes
\* big-endian when L >= 255, and the reader's scan recovers the L bytes.
C20_LengthRecoveredByScan ==
    /\ Wrapped => LengthRecovered(c_tlv, c_record)
    /\ Built => LengthRecovered(c_btlv, ExpectedRecord)

\* The paged wrapper alone follows the rule.
C20_PagedLengthRecovered == Wrapped => LengthRecovered(c_tlv, c_record)

\* build_text_ndef_tlv has emitted the single length byte FF for a message
\* of 255 bytes; the scan takes it for the long-form marker and reads the
\* message's first two bytes D1 01 as the length.
C20_ShortFormAt255 ==
    /\ Built
    /\ Len(ExpectedRecord) = 255
    /\ SubSeq(c_btlv, 2, 4) = <<255, 209, 1>>
    /\ tlv_scan(c_btlv) # ExpectedRecord

(***************************************************************************)
(* The page reader and the page writer called on their own, with a start   *)
(* page, a page count and a payload of the caller's choice.                *)
(***************************************************************************)
MaxPageOffset == 2
MaxPageCount == 9
MaxDataLen == 10

\* A tag whose bytes all differ and are not zero.
PagePattern == [b \in 1..(TagPages * 4) |-> b]

\* A payload of n bytes, none zero.
PayloadOf(n) == [i \in 1..n |-> 200 + i]

PagesInit ==
    /\ rfid = TRUE /\ last_uid = None /\ field = 1 /\ mem = PagePattern
    /\ op = "none" /\ ret_uid = None /\ ret_text = None /\ ret_ok = FALSE
    /\ calls = <<>> /\ observed = NoPoll /\ prev_last_uid = None
    /\ prev_observed = NoPoll /\ prev2_observed = NoPoll
    /\ polled = 0 /\ prev_polled = 0 /\ wr_text = None /\ wr_before = None
    /\ a_start \in TAG_NDEF_START_PAGE..(TAG_NDEF_START_PAGE + MaxPageOffset)
    /\ a_count \in 0..MaxPageCount
    /\ a_data \in {PayloadOf(n) : n \in 0..MaxDataLen}
    /\ a_text = <<>> /\ a_payload = None
    /\ ParseIdle
    /\ ThreadsIdle /\ StepsIdle /\ PlayerIdle /\ CodecIdle /\ SectorIdle

\* self._write_pages(uid, a_data, a_start) on the tag as it was made.
WritePages ==
    \E wr_fail \in 0..pages_needed(PayloadOf(MaxDataLen)), landed \in BOOLEAN :
        /\ op = "none"
        /\ wr_fail <= pages_needed(a_data)
        /\ wr_fail = 0 => ~landed
        /\ \E w \in {write_pages(mem, a_data, a_start, wr_fail, landed)} :
              /\ ret_ok' = w.ok
              /\ calls' = w.calls
              /\ mem' = w.memory
        /\ op' = "write_pages"
        /\ UNCHANGED <<rfid, last_uid, field, ret_uid, ret_text, observed,
                       prev_last_uid, prev_observed, prev2_observed,
                   polled, prev_polled, wr_text, wr_before>>
        /\ UNCHANGED <<a_start, a_count, a_data, a_text, a_payload, parseArgs>>
        /\ UNCHANGED <<codecVars, threadVars, stepVars, playerVars, sectorVars>>

\* self._read_pages(uid, a_start, a_count)
ReadPages ==
    \E rd_fail \in 0..((MaxPageCount + 3) \div 4) :
        /\ op # "read_pages"
        /\ rd_fail <= (Max(a_count, 0) + 3) \div 4
        /\ \E r \in {read_pages(mem, a_start, a_count, rd_fail)} :
              /\ a_payload' = r.payload
              /\ calls' = r.calls
        /\ op' = "read_pages"
        /\ ret_ok' = FALSE
        /\ UNCHANGED <<rfid, last_uid, field, mem, ret_uid, ret_text, observed,
                       prev_last_uid, prev_observed, prev2_observed,
                   polled, prev_polled, wr_text, wr_before>>
        /\ UNCHANGED <<a_start, a_count, a_data, a_text, parseArgs>>
        /\ UNCHANGED <<codecVars, threadVars, stepVars, playerVars, sectorVars>>

PagesNext == WritePages \/ ReadPages

SpecPages == PagesInit /\ [][PagesNext]_vars

\* ceil(n / 4)
CeilDiv4(n) == (n + 3) \div 4

\* The bytes carried by the calls of a log, in order.
CarriedBytes(log) == Concat([k \in 1..Len(log) |-> log[k].data])

(***************************************************************************)
(* C15 -- the page writes of a payload.                                    *)
(***************************************************************************)
\* C15: a write of n bytes at page p that is acknowledged throughout issues
\* exactly ceil(n/4) page writes, to p, p+1, ... in this order, 4 bytes each,
\* which together are the payload followed by fewer than 4 zero bytes; 10
\* bytes at page 4 go to pages 4, 5, 6.
C15_PageWrites ==
    (op = "write_pages" /\ ret_ok) =>
        /\ Len(calls) = CeilDiv4(Len(a_data))
        /\ \A k \in 1..Len(calls) :
              /\ calls[k].call = "write"
              /\ calls[k].page = a_start + k - 1
              /\ Len(calls[k].data) = 4
        /\ CarriedBytes(calls) = a_data \o Zeros(4 * CeilDiv4(Len(a_data)) - Len(a_data))
        /\ 4 * CeilDiv4(Len(a_data)) - Len(a_data) < 4
        /\ (a_start = 4 /\ Len(a_data) = 10) =>
              [k \in 1..Len(calls) |-> calls[k].page] = <<4, 5, 6>>

\* Ten bytes have been written at page 4; the third page carries two of
\* them and two zero bytes.
C15_Witness ==
    /\ op = "write_pages" /\ ret_ok
    /\ a_start = 4 /\ Len(a_data) = 10
    /\ Len(calls) = 3
    /\ calls[3].data = <<209, 210, 0, 0>>

(***************************************************************************)
(* C16 -- a page write that is not acknowledged.                           *)
(***************************************************************************)
\* C16: when a page write is not acknowledged, _write_pages returns False,
\* that write is the last call of the operation, its page is addressed by
\* no other call, and every page after it holds what it held before.
C16_StopsAtFirstNak ==
    op = "write_pages" =>
        \A k \in 1..Len(calls) :
            ~calls[k].ok =>
                /\ ~ret_ok
                /\ k = Len(calls)
                /\ \A j \in 1..Len(calls) : calls[j].page = calls[k].page => j = k
                /\ SliceFrom(mem, 4 * (calls[k].page + 1))
                      = SliceFrom(PagePattern, 4 * (calls[k].page + 1))

\* The second of three page writes was not acknowledged.
C16_Witness ==
    /\ op = "write_pages"
    /\ pages_needed(a_data) = 3
    /\ Len(calls) = 2
    /\ calls[1].ok /\ ~calls[2].ok
    /\ ~ret_ok

(***************************************************************************)
(* C17 -- the chunk reads of a page range.                                 *)
(***************************************************************************)
\* C17: a read of page_count pages from start that succeeds issues
\* ceil(page_count/4) reads, at start, start+4, ... in this order, and
\* returns exactly page_count x 4 bytes, the first bytes of the chunks put
\* together; a read with a chunk that reports an error returns None and that
\* chunk is its last read.
C17_ChunkReads ==
    op = "read_pages" =>
        /\ a_payload # None =>
              /\ Len(calls) = CeilDiv4(a_count)
              /\ \A k \in 1..Len(calls) :
                    /\ calls[k].call = "read"
                    /\ calls[k].ok
                    /\ calls[k].page = a_start + 4 * (k - 1)
              /\ Len(a_payload) = a_count * 4
              /\ IsPrefix(a_payload,
                          Concat([k \in 1..Len(calls) |-> read_data(mem, calls[k].page)]))
        /\ (a_count > 0 /\ \A k \in 1..Len(calls) : calls[k].ok) => a_payload # None
        /\ \A k \in 1..Len(calls) :
              ~calls[k].ok => (a_payload = None /\ k = Len(calls))

\* Nine pages have been read in three chunks.
C17_Witness ==
    /\ op = "read_pages"
    /\ a_count = 9
    /\ a_payload # None
    /\ Len(calls) = 3
    /\ Len(a_payload) = 36

\* The second of three chunk reads reported an error.
C17_WitnessError ==
    /\ op = "read_pages"
    /\ a_count = 9
    /\ Len(calls) = 2
    /\ a_payload = None

(***************************************************************************)
(* C18 -- the chunks the sectored writer hands to the blocks.              *)
(***************************************************************************)
\* The block writes of the last operation, and the TLV of its text.
BlockWrites == SelectSeq(s_calls, LAMBDA c : c.call = "write")
WrittenTlv == build_text_ndef_tlv(s_text, LangEn)

\* The blocks a sectored read of the range concatenates.
ReaderBlocks == SelectSeq(block_range, LAMBDA b : ~reader_skips(b))

\* Chunks of 16 bytes each, one per data block of the range in increasing
\* order, the blocks the reader concatenates.
ChunksOnDataBlocks ==
    /\ \A k \in 1..Len(BlockWrites) : Len(BlockWrites[k].data) = BLOCK_SIZE
    /\ [k \in 1..Len(BlockWrites) |-> BlockWrites[k].page] = DataBlocks
    /\ \A k \in 1..(Len(BlockWrites) - 1) : BlockWrites[k].page < BlockWrites[k + 1].page
    /\ DataBlocks = ReaderBlocks

\* C18: a completed write_text_to_tag writes chunks of exactly 16 bytes to
\* the non-trailer blocks of the range in increasing order, the blocks the
\* reader concatenates, and the chunks put together in block order are the
\* TLV followed only by zero bytes.
C18_ChunksAreTlvThenZeros ==
    (s_op = "write" /\ s_success) =>
        /\ ChunksOnDataBlocks
        /\ \E n \in 0..SectorCapacity :
              CarriedBytes(BlockWrites) = WrittenTlv \o Zeros(n)

\* The same for a TLV that the data blocks of the range can hold; a read of
\* the range then returns the chunks.
C18_ChunksWhenTlvFits ==
    (s_op = "write" /\ s_success /\ Len(WrittenTlv) <= SectorCapacity) =>
        /\ ChunksOnDataBlocks
        /\ CarriedBytes(BlockWrites) = WrittenTlv \o Zeros(SectorCapacity - Len(WrittenTlv))
        /\ block_count > 0 =>
              read_blocks(CardUID, block_range, blocks_mem, 0, 0).payload
                 = CarriedBytes(BlockWrites)

\* A range that begins with a trailer: the one chunk written to the block
\* after it is the head of a longer TLV and ends in the middle of it.
C18_ChunksCutTlv ==
    /\ s_op = "write" /\ s_success
    /\ reader_skips(start_block) /\ block_count = 2
    /\ Len(BlockWrites) = 1
    /\ BlockWrites[1].page = start_block + 1
    /\ Len(WrittenTlv) > BLOCK_SIZE
    /\ BlockWrites[1].data = Slice(WrittenTlv, 0, BLOCK_SIZE)

\* Two chunks on the two sides of a trailer hold a TLV and zero bytes.
C18_ChunksAcrossTrailer ==
    /\ s_op = "write" /\ s_success
    /\ Len(BlockWrites) >= 2
    /\ BlockWrites[1].page + 2 = BlockWrites[2].page
    /\ Len(WrittenTlv) > BLOCK_SIZE
    /\ Len(WrittenTlv) < SectorCapacity

(***************************************************************************)
(* The TLV scan of _read_ndef_text on buffers laid out TLV by TLV, and on   *)
(* buffers that end before their last TLV does.                            *)
(***************************************************************************)
MaxTlvs == 3
MaxCut == 3

RecordHi == <<209, 1, 5, 84, 2, 101, 110, 72, 105>>
RecordOk == <<209, 1, 5, 84, 2, 101, 110, 111, 107>>

\* A TLV: its type, whether its length is in the long form, its value, and
\* the text a reader of its value alone returns.
Tlv(type, long, value, text) == [type |-> type, long |-> long, value |-> value, text |-> text]

TlvNull == Tlv(0, FALSE, <<>>, None)
TlvTerminator == Tlv(254, FALSE, <<>>, None)
\* a lock control TLV whose value looks like a terminator and an NDEF type
TlvLock == Tlv(1, FALSE, <<254, 3>>, None)
\* a memory control TLV in the long form whose value looks like an empty
\* NDEF TLV and a terminator
TlvMemory == Tlv(2, TRUE, <<3, 0, 254>>, None)
TlvHi == Tlv(3, FALSE, RecordHi, <<72, 105>>)
TlvHiLong == Tlv(3, TRUE, RecordHi, <<72, 105>>)
TlvOk == Tlv(3, FALSE, RecordOk, <<111, 107>>)
\* an NDEF TLV with a URI record, and one with no record at all
TlvUri == Tlv(3, FALSE, <<209, 1, 1, 85, 0>>, None)
TlvEmpty == Tlv(3, FALSE, <<>>, None)

TlvKinds == {TlvNull, TlvTerminator, TlvLock, TlvMemory, TlvHi, TlvHiLong,
             TlvOk, TlvUri, TlvEmpty}

\* The bytes of one TLV on the tag.
TlvBytes(t) ==
    IF t.type \in {0, 254} THEN <<t.type>>
    ELSE <<t.type>>
         \o (IF t.long THEN <<255, Len(t.value) \div 256, Len(t.value) % 256>>
                       ELSE <<Len(t.value)>>)
         \o t.value

\* Lengths of blank memory.
BlankLens == {1, 4, 16, 128}

\* raw_bytes for a layout: the TLVs one after the other, less the last
\* `cut` bytes; or blank memory.
LayoutBytes(layout) ==
    IF layout.kind = "blank" THEN Zeros(layout.cut)
    ELSE LET all == Concat([k \in 1..Len(layout.tlvs) |-> TlvBytes(layout.tlvs[k])])
         IN  Slice(all, 0, Max(Len(all) - layout.cut, 0))

ScanLayouts ==
    {[kind |-> "tlvs", tlvs |-> tl, cut |-> c] :
        tl \in UNION {[1..n -> TlvKinds] : n \in 0..MaxTlvs}, c \in 0..MaxCut}
    \cup {[kind |-> "blank", tlvs |-> <<>>, cut |-> n] : n \in BlankLens}

ScanInit ==
    /\ a_layout \in ScanLayouts
    /\ a_raw = LayoutBytes(a_layout)
    /\ a_message = NotBuilt /\ a_parsed = NotBuilt
    /\ a_start = 0 /\ a_count = 0 /\ a_data = <<>> /\ a_text = <<>> /\ a_payload = None
    /\ CodecIdle /\ ReaderIdle /\ ThreadsIdle /\ StepsIdle /\ PlayerIdle /\ SectorIdle

\* Reader._read_ndef_text from `if not raw_bytes` on: the scan and, for the
\* message it finds, the parser.
ScanBuffer ==
    /\ a_parsed = NotBuilt
    /\ a_message' = tlv_scan(a_raw)
    /\ a_parsed' = IF a_message' = None THEN None ELSE parse_text_record(a_message')
    /\ UNCHANGED <<a_layout, a_raw>>
    /\ UNCHANGED <<a_start, a_count, a_data, a_text, a_payload>>
    /\ UNCHANGED <<codecVars, readerVars, threadVars, stepVars, playerVars, sectorVars>>

ScanNext == ScanBuffer

SpecScan == ScanInit /\ [][ScanNext]_vars

Scanned == a_layout.kind \in {"tlvs", "blank"} /\ a_parsed # NotBuilt

\* Offsets (0-based) of the first byte of the k-th TLV and of the byte after
\* its last.
TlvStart(k) == Len(Concat([j \in 1..(k - 1) |-> TlvBytes(a_layout.tlvs[j])]))
TlvEnd(k) == TlvStart(k) + Len(TlvBytes(a_layout.tlvs[k]))

\* Index of the first TLV that is an NDEF message or a terminator, 0 when
\* there is none.
FirstDeciding ==
    LET d == {k \in 1..Len(a_layout.tlvs) : a_layout.tlvs[k].type \in {3, 254}}
    IN  IF d = {} THEN 0 ELSE CHOOSE k \in d : \A j \in d : k <= j

(***************************************************************************)
(* C21 -- other TLVs are skipped, the first NDEF TLV decides.              *)
(***************************************************************************)
\* C21: when the first TLV that is not NULL and not of another type is an
\* NDEF TLV that lies wholly in the buffer, the TLVs before it are skipped
\* by their lengths, the message is that TLV's value and the result is its
\* text, absence if it has none, whatever TLVs follow.
C21_FirstNdefTlvWins ==
    (Scanned /\ FirstDeciding > 0) =>
        LET first == a_layout.tlvs[FirstDeciding]
        IN  (first.type = 3 /\ TlvEnd(FirstDeciding) <= Len(a_raw)) =>
                /\ a_message = first.value
                /\ a_parsed = first.text

\* A long-form TLV of another type was skipped by its length, and the URI
\* record found after it gave no text although a text record follows.
C21_Witness ==
    /\ Scanned /\ a_layout.cut = 0
    /\ a_layout.tlvs = <<TlvMemory, TlvUri, TlvHi>>
    /\ a_message = TlvUri.value
    /\ a_parsed = None

\* A short and a long TLV of other types were skipped before the text.
C21_WitnessSkipped ==
    /\ Scanned /\ a_layout.cut = 0
    /\ Len(a_layout.tlvs) = 3
    /\ {a_layout.tlvs[1], a_layout.tlvs[2]} = {TlvLock, TlvMemory}
    /\ a_layout.tlvs[3] = TlvHi
    /\ a_message = RecordHi /\ a_parsed = <<72, 105>>

(***************************************************************************)
(* C22 -- NULL TLVs and blank memory.                                      *)
(***************************************************************************)
\* C22: a buffer of zero bytes only gives absence, and zero bytes at TLV type
\* positions before an NDEF TLV are skipped one byte each: the NDEF TLV
\* after them is found.
C22_NullTlvSkipped ==
    Scanned =>
        /\ (\A i \in 1..Len(a_raw) : a_raw[i] = 0) => (a_message = None /\ a_parsed = None)
        /\ \A k \in 1..Len(a_layout.tlvs) :
              (/\ \A j \in 1..(k - 1) : a_layout.tlvs[j] = TlvNull
               /\ a_layout.tlvs[k].type = 3
               /\ TlvEnd(k) <= Len(a_raw))
              => (a_message = a_layout.tlvs[k].value /\ TlvStart(k) = k - 1)

\* 128 zero bytes were scanned.
C22_Witness ==
    /\ Scanned /\ a_layout.kind = "blank"
    /\ Len(a_raw) = 128
    /\ a_parsed = None

\* Two NULL TLVs and then the text.
C22_WitnessLeadingNulls ==
    /\ Scanned /\ a_layout.cut = 0
    /\ a_layout.tlvs = <<TlvNull, TlvNull, TlvHi>>
    /\ a_parsed = <<72, 105>>

(***************************************************************************)
(* C23 -- the terminator ends the scan.                                    *)
(***************************************************************************)
\* C23: when a terminator TLV comes before any NDEF TLV the result is
\* absence, whatever follows the terminator.
C23_TerminatorEndsScan ==
    (Scanned /\ FirstDeciding > 0) =>
        ((a_layout.tlvs[FirstDeciding].type = 254 /\ TlvEnd(FirstDeciding) <= Len(a_raw))
            => (a_message = None /\ a_parsed = None))

\* A terminator and a text record after it.
C23_Witness ==
    /\ Scanned /\ a_layout.cut = 0
    /\ \E k \in 1..(Len(a_layout.tlvs) - 1) :
          /\ FirstDeciding = k
          /\ a_layout.tlvs[k] = TlvTerminator
          /\ a_layout.tlvs[k + 1] = TlvHi
    /\ a_parsed = None

(***************************************************************************)
(* C24 -- a buffer that ends inside the NDEF TLV.                          *)
(***************************************************************************)
\* C24: when the first NDEF TLV declares more bytes than the buffer holds
\* after its length field, the result is absence.
C24_TruncatedGivesNone ==
    (Scanned /\ FirstDeciding > 0) =>
        ((a_layout.tlvs[FirstDeciding].type = 3 /\ TlvEnd(FirstDeciding) > Len(a_raw))
            => a_parsed = None)

\* The buffer ends one byte before the record of "Hi" does: the message is
\* 8 of the 9 declared bytes and the result is the text "H".
C24_TruncatedDecoded ==
    /\ Scanned
    /\ a_layout.tlvs = <<TlvHi>> /\ a_layout.cut = 1
    /\ a_raw = <<3, 9, 209, 1, 5, 84, 2, 101, 110, 72>>
    /\ Len(a_message) = 8
    /\ a_parsed = <<72>>

(***************************************************************************)
(* The record parser on messages laid out field by field, and on every     *)
(* short byte string.                                                      *)
(***************************************************************************)
MaxRawLen == 3

\* Bytes of the short messages: 00, 01, 02, 'T', headers without SR (C1),
\* with SR (D1), with SR and IL (D9), and FF.
RawBytes == {0, 1, 2, 84, 193, 209, 217, 255}

\* Type fields: 'T', 'U', 't', a non-ASCII byte, none, "TT", and 'T' beside a
\* non-ASCII byte.
RecordTypes == {<<84>>, <<85>>, <<116>>, <<200>>, <<>>, <<84, 84>>, <<84, 200>>, <<200, 84>>}

\* "", " ", "Hi", " Hi ", e-acute and the euro sign
DecodeTexts == {<<>>, <<32>>, <<72, 105>>, <<32, 72, 105, 32>>, <<233, 8364>>}

\* The fields of a record.  flag: 0, the reserved bit 0x40 or the UTF-16
\* bit 0x80 of the status byte; skew: what the status byte's language length
\* says beyond the language that follows; over: what the payload length
\* field says beyond the payload that follows.
RecordLayouts ==
    {[kind |-> "record", sr |-> sr, il |-> il, type |-> type, id |-> id,
      has_payload |-> has, flag |-> flag, skew |-> skew, lang |-> lang,
      text |-> text, over |-> over] :
        sr \in BOOLEAN, il \in BOOLEAN, type \in RecordTypes,
        id \in {<<>>, <<84, 0>>}, has \in BOOLEAN, flag \in {0, 64, 128},
        skew \in {0, 1}, lang \in {<<>>, LangEn}, text \in DecodeTexts,
        over \in {0, 1}}

\* One layout for each message: a record without an IL flag has no ID, one
\* without a payload has no status, language or text.
IsNormalLayout(l) ==
    /\ ~l.il => l.id = <<>>
    /\ ~l.has_payload => (l.flag = 0 /\ l.skew = 0 /\ l.lang = <<>> /\ l.text = <<>>)

StatusByte(l) == l.flag + Len(l.lang) + l.skew

PayloadBytes(l) ==
    IF l.has_payload THEN <<StatusByte(l)>> \o l.lang \o utf8_encode(l.text) ELSE <<>>

\* The record's bytes: header, type length, payload length (1 byte with SR,
\* 4 bytes big-endian without), ID length (with IL), type, ID, payload.
RecordBytes(l) ==
    LET payload_length == Len(PayloadBytes(l)) + l.over
    IN  <<193 + (IF l.sr THEN 16 ELSE 0) + (IF l.il THEN 8 ELSE 0), Len(l.type)>>
        \o (IF l.sr THEN <<payload_length>>
                    ELSE <<0, 0, payload_length \div 256, payload_length % 256>>)
        \o (IF l.il THEN <<Len(l.id)>> ELSE <<>>)
        \o l.type \o l.id \o PayloadBytes(l)

RawMessages == UNION {[1..n -> RawBytes] : n \in 0..MaxRawLen}

DecodeInit ==
    /\ \/ /\ a_layout \in {l \in RecordLayouts : IsNormalLayout(l)}
          /\ a_message = RecordBytes(a_layout)
       \/ /\ a_layout = [kind |-> "bytes"]
          /\ a_message \in RawMessages
    /\ a_raw = None /\ a_parsed = NotBuilt
    /\ a_start = 0 /\ a_count = 0 /\ a_data = <<>> /\ a_text = <<>> /\ a_payload = None
    /\ CodecIdle /\ ReaderIdle /\ ThreadsIdle /\ StepsIdle /\ PlayerIdle /\ SectorIdle

\* self._parse_text_record(a_message)
ParseMessage ==
    /\ a_layout.kind \in {"record", "bytes"}
    /\ a_parsed = NotBuilt
    /\ a_parsed' = parse_text_record(a_message)
    /\ UNCHANGED <<a_layout, a_raw, a_message>>
    /\ UNCHANGED <<a_start, a_count, a_data, a_text, a_payload>>
    /\ UNCHANGED <<codecVars, readerVars, threadVars, stepVars, playerVars, sectorVars>>

DecodeNext == ParseMessage

SpecDecode == DecodeInit /\ [][DecodeNext]_vars

Parsed == a_layout.kind \in {"record", "bytes"} /\ a_parsed # NotBuilt
ParsedRecord == a_layout.kind = "record" /\ a_parsed # NotBuilt

\* What str.strip() leaves of a text, None when nothing is left.
TrimmedOrNone(t) == IF strip(t) = <<>> THEN None ELSE strip(t)

(***************************************************************************)
(* C25 -- the parser is total.                                             *)
(***************************************************************************)
\* C25: for every message the parser returns without raising, and returns
\* None or a text that is not empty and neither begins nor ends with
\* whitespace.
C25_DecodeTotal ==
    Parsed =>
        /\ a_parsed # Raised
        /\ a_parsed # None =>
              /\ Len(a_parsed) > 0
              /\ ~IsSpace(a_parsed[1])
              /\ ~IsSpace(a_parsed[Len(a_parsed)])

\* A message of one byte, which ends before its type length, gave None.
C25_Witness ==
    /\ Parsed /\ a_layout.kind = "bytes"
    /\ a_message = <<209>>
    /\ a_parsed = None

\* A payload length that points past the end, and a text with blanks around.
C25_WitnessTrimmed ==
    /\ ParsedRecord
    /\ a_layout.over = 1 /\ a_layout.text = <<32, 72, 105, 32>>
    /\ a_parsed = <<72, 105>>

(***************************************************************************)
(* C26 -- a record of another one-byte type.                               *)
(***************************************************************************)
\* C26: a record whose type is one byte other than 'T' gives None.
C26_OtherTypeGivesNone ==
    (ParsedRecord /\ Len(a_layout.type) = 1 /\ a_layout.type # <<84>>) =>
        a_parsed = None

\* The URI record D1 01 01 55 00 of the test suite.
C26_Witness ==
    /\ ParsedRecord
    /\ a_message = <<209, 1, 1, 85, 0>>
    /\ a_parsed = None

(***************************************************************************)
(* C27 -- only the type 'T' is decoded.                                    *)
(***************************************************************************)
\* C27: a record whose type field is not exactly the byte 54 gives None.
C27_OnlyTypeT ==
    (ParsedRecord /\ a_layout.type # <<84>>) => a_parsed = None

\* The types that are not 'T' and that the ASCII decoding does not turn
\* into "T" give None.
C27_OtherAsciiTypes ==
    (ParsedRecord /\ ascii_decode(a_layout.type) # <<84>>) => a_parsed = None

\* The type field 54 C8 was taken for 'T' and the text returned.
C27_NonAsciiTypeDecoded ==
    /\ ParsedRecord
    /\ a_message = <<209, 2, 5, 84, 200, 2, 101, 110, 72, 105>>
    /\ a_parsed = <<72, 105>>

(***************************************************************************)
(* C28 -- what a text record gives.                                        *)
(***************************************************************************)
\* A short record of type 'T' whose fields say what follows them, with a
\* UTF-8 status byte.
ShortTextRecord ==
    /\ a_layout.sr /\ a_layout.type = <<84>> /\ a_layout.over = 0
    /\ a_layout.flag # 128

\* C28: the empty message, a record without payload and a record whose text
\* is empty after trimming give None; a short 'T' record with UTF-8 status
\* byte s gives the payload after its first 1 + (s & 0x3F) bytes, decoded and
\* trimmed; D1 01 05 54 02 65 6E 48 69 gives "Hi".
C28_TextAfterLanguage ==
    /\ (Parsed /\ a_message = <<>>) => a_parsed = None
    /\ (ParsedRecord /\ ~a_layout.has_payload) => a_parsed = None
    /\ (ParsedRecord /\ ShortTextRecord /\ a_layout.has_payload) =>
          a_parsed = TrimmedOrNone(utf8_decode(
                         SliceFrom(PayloadBytes(a_layout), 1 + (StatusByte(a_layout) % 64))))
    /\ (ParsedRecord /\ ShortTextRecord /\ a_layout.has_payload /\ a_layout.skew = 0) =>
          a_parsed = TrimmedOrNone(a_layout.text)
    /\ (Parsed /\ a_message = RecordHi) => a_parsed = <<72, 105>>

\* The record of the test suite gave "Hi".
C28_Witness ==
    /\ ParsedRecord /\ ShortTextRecord
    /\ a_message = RecordHi
    /\ a_parsed = <<72, 105>>

\* The empty message, and a record whose text is one blank.
C28_WitnessEmpty == Parsed /\ a_message = <<>> /\ a_parsed = None
C28_WitnessBlank ==
    /\ ParsedRecord /\ ShortTextRecord /\ a_layout.has_payload
    /\ a_layout.text = <<32>> /\ a_layout.skew = 0
    /\ a_parsed = None

(***************************************************************************)
(* C29 -- long records and records with an ID.                             *)
(***************************************************************************)
\* A 'T' record, short or long, with or without ID, whose fields say what
\* follows them, with a UTF-8 status byte.
TextRecord ==
    /\ a_layout.type = <<84>> /\ a_layout.over = 0 /\ a_layout.has_payload
    /\ a_layout.flag = 0 /\ a_layout.skew = 0

NewTagReadFailed ==
    /\ op = "poll" /\ observed # None /\ observed # prev_last_uid
    /\ Reported(calls, "read")

\* C30: a poll of a new tag whose memory read fails returns, reports no
\* text, and leaves last_uid None, not the UID of that tag.
C30_ReadFailureBackToIdle ==
    NewTagReadFailed => (ret_text = None /\ last_uid = None)

\* The part that holds: the poll returns and reports no text.
C30_ReadFailureNoText ==
    NewTagReadFailed => (ret_text = None /\ ret_uid = observed)

\* The tag holding "Hi" was polled, its second chunk read failed, and
\* last_uid is the tag's UID: no later poll reads it while it stays.
C30_ReadFailureRemembered ==
    /\ NewTagReadFailed
    /\ field = 1 /\ StoredText = <<72, 105>>
    /\ Len(PageReads(calls)) = 2
    /\ ret_text = None
    /\ last_uid = uid_to_str(TagUID(1))


(***************************************************************************)
(* AudioPlayer (src/src/rfid_audio_player/audio_player.py).                *)
(***************************************************************************)
\* The media library: what os.listdir(MEDIA_PATH) lists.  "Hi" is a folder
\* of two tracks and a cover image with a third track in its Converted
\* subfolder, "i" a folder of one track, "A" a folder holding a cover image
\* only, "B" a plain file.
MediaListing == {<<72, 105>>, <<105>>, <<65>>, <<66>>}

\* os.path.isdir(os.path.join(MEDIA_PATH, key))
is_dir(key) == key \in {<<72, 105>>, <<105>>, <<65>>}

\* A directory entry: the track it holds (0: not a track) and whether its
\* name ends with one of SUPPORTED_EXTENSIONS.
Entry(track, supported) == [track |-> track, supported |-> supported]

\* os.listdir(folder_path)
FolderEntries(key) ==
    IF key = <<72, 105>> THEN <<Entry(1, TRUE), Entry(0, FALSE), Entry(2, TRUE)>>
    ELSE IF key = <<105>> THEN <<Entry(4, TRUE)>>
    ELSE <<Entry(0, FALSE)>>

\* os.listdir(converted_dir), empty where there is no such subfolder.
ConvertedEntries(key) ==
    IF key = <<72, 105>> THEN <<Entry(3, TRUE), Entry(0, FALSE)>> ELSE <<>>

\* Keys load_playlist is called with: the four entries, a name that is not
\* listed, and None (a tag without text).
PlayerKeys == MediaListing \cup {<<67>>, None}

\* AudioPlayer._gather_audio_files
gather_audio_files(key) ==
    LET entries == FolderEntries(key) \o ConvertedEntries(key)
        kept == SelectSeq(entries, LAMBDA e : e.supported)
    IN  [i \in 1..Len(kept) |-> kept[i].track]

\* random.shuffle: every order of the list.
Shuffles(files) ==
    {order \in [1..Len(files) -> {files[i] : i \in 1..Len(files)}] :
        \A i, j \in 1..Len(files) : i # j => order[i] # order[j]}

\* AudioPlayer._play_current_track: playing, paused and the mixer calls.
\* raised: 0 none, 1 pygame.mixer.music.load raised pygame.error, 2 play did.
play_current_track(playlist, index, is_playing, is_paused, raised) ==
    IF playlist = <<>> \/ index = -1
       THEN [playing |-> is_playing, paused |-> is_paused, mixer |-> <<>>]
    ELSE IF raised = 1
       THEN [playing |-> is_playing, paused |-> is_paused, mixer |-> <<"load">>]
    ELSE IF raised = 2
       THEN [playing |-> is_playing, paused |-> is_paused, mixer |-> <<"load", "play">>]
    ELSE [playing |-> TRUE, paused |-> FALSE, mixer |-> <<"load", "play">>]

\* What every AudioPlayer method leaves behind.
player_returns(name, ret, playlist, index, is_paused, is_playing, mixer) ==
    /\ p_op' = name
    /\ p_ret' = ret
    /\ current_playlist' = playlist
    /\ current_track_index' = index
    /\ paused' = is_paused
    /\ playing' = is_playing
    /\ p_mixer' = mixer
    /\ p_before' = PlayerFields(current_playlist, current_track_index, paused, playing)
    /\ p_prev_op' = p_op
    /\ p_before2' = p_before
    /\ UNCHANGED <<codecVars, readerVars, threadVars, stepVars, sectorVars, argVars>>

\* `self.current_playlist = self._gather_audio_files(folder_path)` and the
\* shuffle come before `if not self.current_playlist: return False`.
playlist_when_no_audio(old, gathered) == gathered

\* AudioPlayer.load_playlist
load_playlist(key, raised) ==
    IF key \notin MediaListing \/ ~is_dir(key)
       THEN player_returns("load_playlist", <<0>>, current_playlist,
                           current_track_index, paused, playing, <<>>)
    ELSE \E shuffled \in Shuffles(gather_audio_files(key)) :
            IF shuffled = <<>>
               THEN player_returns("load_playlist", <<0>>,
                                   playlist_when_no_audio(current_playlist, shuffled),
                                   current_track_index, paused, playing, <<>>)
            ELSE LET r == play_current_track(shuffled, 0, playing, paused, raised)
                 IN  player_returns("load_playlist", <<1>>, shuffled, 0,
                                    r.paused, r.playing, r.mixer)

\* `self.paused = False` after unpause, `self.paused = True` after pause.
paused_after_toggle_stuck(is_paused) == TRUE

paused_after_toggle(is_paused) == ~is_paused

\* AudioPlayer.toggle_pause
toggle_pause ==
    IF ~playing
       THEN player_returns("toggle_pause", None, current_playlist,
                           current_track_index, paused, playing, <<>>)
    ELSE player_returns("toggle_pause", None, current_playlist, current_track_index,
                        paused_after_toggle(paused), playing,
                        IF paused THEN <<"unpause">> ELSE <<"pause">>)

\* `(self.current_track_index + 1) % len(self.current_playlist)`
next_index_no_wrap(index, length) == index + 1

next_index(index, length) == (index + 1) % length

\* `(self.current_track_index - 1) % len(self.current_playlist)`
prev_index(index, length) == (index - 1) % length

\* AudioPlayer.next_track: the fields and mixer calls it leaves.
next_track_result(raised) ==
    IF current_playlist = <<>>
       THEN [index |-> current_track_index, playing |-> playing, paused |-> paused,
             mixer |-> <<>>]
    ELSE LET index == next_index(current_track_index, Len(current_playlist))
             r == play_current_track(current_playlist, index, playing, paused, raised)
         IN  [index |-> index, playing |-> r.playing, paused |-> r.paused,
              mixer |-> r.mixer]

\* AudioPlayer.next_track
next_track(raised) ==
    LET r == next_track_result(raised)
    IN  player_returns("next_track", None, current_playlist, r.index, r.paused,
                       r.playing, r.mixer)

\* AudioPlayer.prev_track
prev_track(raised) ==
    IF current_playlist = <<>>
       THEN player_returns("prev_track", None, current_playlist, current_track_index,
                           paused, playing, <<>>)
    ELSE LET index == prev_index(current_track_index, Len(current_playlist))
             r == play_current_track(current_playlist, index, playing, paused, raised)
         IN  player_returns("prev_track", None, current_playlist, index, r.paused,
                            r.playing, r.mixer)

\* `if is_last_track: self.playing = False`
playing_after_last_track(is_playing) == FALSE

\* AudioPlayer.check_for_song_end; busy: pygame.mixer.music.get_busy()
check_for_song_end(busy, raised) ==
    IF ~(playing /\ ~paused)
       THEN player_returns("check_for_song_end", None, current_playlist,
                           current_track_index, paused, playing, <<>>)
    ELSE IF busy
       THEN player_returns("check_for_song_end", None, current_playlist,
                           current_track_index, paused, playing, <<"get_busy=True">>)
    ELSE IF current_track_index = Len(current_playlist) - 1
       THEN player_returns("check_for_song_end", None, current_playlist,
                           current_track_index, paused,
                           playing_after_last_track(playing), <<"get_busy=False">>)
    ELSE LET r == next_track_result(raised)
         IN  player_returns("check_for_song_end", None, current_playlist, r.index,
                            r.paused, r.playing, <<"get_busy=False">> \o r.mixer)

\* AudioPlayer.stop
stop ==
    player_returns("stop", None, <<>>, -1, FALSE, FALSE, <<"stop">>)

PlayerInit ==
    /\ PlayerIdle
    /\ CodecIdle /\ ReaderIdle /\ ThreadsIdle /\ StepsIdle /\ SectorIdle /\ ArgsIdle

\* pygame's answers are inputs; one that is never asked for is left at
\* "nothing raised" / "busy".
LoadPlaylist ==
    \E key \in PlayerKeys, raised \in 0..2 :
        /\ (key \notin MediaListing \/ ~is_dir(key) \/ gather_audio_files(key) = <<>>)
              => raised = 0
        /\ load_playlist(key, raised)

NextTrack ==
    \E raised \in 0..2 :
        /\ current_playlist = <<>> => raised = 0
        /\ next_track(raised)

PrevTrack ==
    \E raised \in 0..2 :
        /\ current_playlist = <<>> => raised = 0
        /\ prev_track(raised)

TogglePause == toggle_pause

CheckForSongEnd ==
    \E busy \in BOOLEAN, raised \in 0..2 :
        /\ ~(playing /\ ~paused) => busy
        /\ (busy \/ current_playlist = <<>>
              \/ current_track_index = Len(current_playlist) - 1) => raised = 0
        /\ check_for_song_end(busy, raised)

Stop == stop

PlayerNext ==
    \/ LoadPlaylist
    \/ NextTrack
    \/ PrevTrack
    \/ TogglePause
    \/ CheckForSongEnd
    \/ Stop

SpecPlayer == PlayerInit /\ [][PlayerNext]_vars

\* The four fields now.
PlayerNow == PlayerFields(current_playlist, current_track_index, paused, playing)

\* C31: toggle_pause on a playing player flips paused, issues exactly one
\* mixer call (unpause when it was paused, pause when it was not) and leaves
\* the other fields alone; two calls in a row give paused its first value
\* back; on a player that is not playing it changes nothing and calls nothing.
C31_TogglePause ==
    p_op = "toggle_pause" =>
        /\ p_before.playing =>
              /\ paused = ~p_before.paused
              /\ p_mixer = (IF p_before.paused THEN <<"unpause">> ELSE <<"pause">>)
              /\ PlayerNow = [p_before EXCEPT !.paused = paused]
        /\ ~p_before.playing => (PlayerNow = p_before /\ p_mixer = <<>>)
        /\ (p_prev_op = "toggle_pause" /\ p_before2.playing) => paused = p_before2.paused

C31_Witness ==
    /\ p_op = "toggle_pause" /\ p_prev_op = "toggle_pause"
    /\ p_before2.playing /\ ~p_before2.paused /\ p_before.paused /\ ~paused
    /\ p_mixer = <<"unpause">>

C31_WitnessNotPlaying ==
    /\ p_op = "toggle_pause" /\ ~p_before.playing /\ p_before.playlist # <<>>
    /\ p_mixer = <<>>

\* C39: a load_playlist that returns False has left current_playlist,
\* current_track_index, playing and paused as they were.
C39_FailedLoadChangesNothing ==
    (p_op = "load_playlist" /\ p_ret = <<0>>) => PlayerNow = p_before

\* load_playlist returned False for the folder without audio files while a
\* track of another playlist was playing: the playlist is gone, the index
\* and the playing flag still speak of it.
C39_PlaylistLost ==
    /\ p_op = "load_playlist" /\ p_ret = <<0>>
    /\ Len(p_before.playlist) = 3 /\ p_before.playing
    /\ current_playlist = <<>> /\ current_track_index = 2 /\ playing

\* The song that was playing has ended: check_for_song_end asked get_busy and
\* the answer was False.
SongEnded ==
    /\ p_op = "check_for_song_end" /\ p_mixer # <<>> /\ p_mixer[1] = "get_busy=False"

\* C40: after every method, paused implies playing and a non-empty playlist
\* has its index inside it; next_track steps forward and prev_track backward
\* around the playlist, each undoing the other; a song that ends on the last
\* track clears playing and leaves the index where it was.
C40_PlayerInvariant ==
    LET n == Len(current_playlist)
        was == p_before.index
    IN  /\ paused => playing
        /\ current_playlist # <<>> =>
              (0 <= current_track_index /\ current_track_index < n)
        /\ (p_op = "next_track" /\ current_playlist # <<>>) =>
              current_track_index = (IF was = n - 1 THEN 0 ELSE was + 1)
        /\ (p_op = "prev_track" /\ current_playlist # <<>>) =>
              current_track_index = (IF was = 0 THEN n - 1 ELSE was - 1)
        /\ (/\ {p_op, p_prev_op} = {"next_track", "prev_track"}
            /\ current_playlist # <<>>) =>
              current_track_index = p_before2.index
        /\ (SongEnded /\ was = Len(p_before.playlist) - 1) =>
              (~playing /\ current_track_index = was
               /\ current_playlist = p_before.playlist)

C40_Witness ==
    /\ p_op = "prev_track" /\ p_prev_op = "next_track"
    /\ Len(current_playlist) = 3
    /\ p_before2.index = 2 /\ p_before.index = 0 /\ current_track_index = 2

C40_WitnessLastTrack ==
    /\ SongEnded /\ Len(current_playlist) = 3 /\ current_track_index = 2
    /\ p_before.playing /\ ~playing

(***************************************************************************)
(* C32 -- last_uid follows what the polls observe.                         *)
(***************************************************************************)
\* C32: after every poll last_uid is the UID string of the tag the poll
\* observed, None when it observed none; the poll returned a UID exactly when
\* it changed last_uid to a UID, and that UID is the one it returned.
C32_LastUidIsObserved ==
    op = "poll" =>
        /\ last_uid = observed
        /\ (field # 0 /\ observed # None) => observed = uid_to_str(TagUID(field))
        /\ (ret_uid # None) <=> (last_uid # None /\ last_uid # prev_last_uid)
        /\ ret_uid # None => ret_uid = last_uid

\* A tag was taken off and another put on between two polls, after a write.
C32_Witness ==
    /\ op = "poll" /\ prev_last_uid = uid_to_str(TagUID(1))
    /\ field = 2 /\ ret_uid = uid_to_str(TagUID(2)) /\ last_uid = ret_uid
    /\ StoredText = <<105>>

C32_WitnessAbsent ==
    /\ op = "poll" /\ prev_last_uid # None /\ observed = None /\ last_uid = None
    /\ ret_uid = None

(***************************************************************************)
(* C36 -- two tags whose UIDs read the same.                               *)
(***************************************************************************)
LookAlikeTags == {2, 3}

SwapInit ==
    /\ rfid = TRUE
    /\ last_uid = None /\ field = 0 /\ mem = <<>> /\ op = "none"
    /\ ret_uid = None /\ ret_text = None /\ ret_ok = FALSE /\ calls = <<>>
    /\ observed = NoPoll /\ prev_last_uid = None /\ prev_observed = NoPoll
    /\ prev2_observed = NoPoll
    /\ polled = 0 /\ prev_polled = 0 /\ wr_text = None /\ wr_before = None
    /\ CodecIdle /\ ThreadsIdle /\ StepsIdle /\ PlayerIdle /\ SectorIdle /\ ArgsIdle

PlaceLookAlike == \E tag \in LookAlikeTags, image \in TagImages : PlaceTag(tag, image)

SwapNext == Poll \/ PlaceLookAlike \/ RemoveTag

SpecSwap == SwapInit /\ [][SwapNext]_vars

\* The last two polls each observed a tag, and the two tags' UIDs differ.
TagSwapped ==
    /\ op = "poll" /\ polled # 0 /\ prev_polled # 0
    /\ TagUID(polled) # TagUID(prev_polled)

\* C36: tags with different UID bytes have different UID strings, and a poll
\* that observes another tag than the poll before it reports it as new.
C36_DifferentTagReportedNew ==
    TagSwapped =>
        /\ uid_to_str(TagUID(polled)) # uid_to_str(TagUID(prev_polled))
        /\ ret_uid = uid_to_str(TagUID(polled))

\* Tag 2 holding nothing was replaced by tag 3 holding "Hi": the poll returns
\* (None, None) and the text is not read.
C36_SwapUnnoticed ==
    /\ TagSwapped /\ prev_polled = 2 /\ polled = 3
    /\ uid_to_str(TagUID(2)) = uid_to_str(TagUID(3))
    /\ StoredText = <<72, 105>>
    /\ ret_uid = None /\ ret_text = None
    /\ PageReads(calls) = <<>>

(***************************************************************************)
(* C33, C35 -- one tag written again and again.                            *)
(***************************************************************************)
\* Texts handed to write_text: " i ", " " and "ABCDEFGHIJKL".
RewriteTexts == {<<32, 105, 32>>, <<32>>, [i \in 1..12 |-> 64 + i]}

\* Pages the longest of them takes.
MaxRewritePages ==
    (Len(create_tlv_wrapper(create_text_record([i \in 1..12 |-> 64 + i], LangEn))) + 3) \div 4

RewriteInit ==
    /\ rfid = TRUE /\ last_uid = None /\ field = 1 /\ mem = MemImage(<<>>)
    /\ op = "none" /\ ret_uid = None /\ ret_text = None /\ ret_ok = FALSE
    /\ calls = <<>> /\ observed = NoPoll /\ prev_last_uid = None
    /\ prev_observed = NoPoll /\ prev2_observed = NoPoll
    /\ polled = 0 /\ prev_polled = 0 /\ wr_text = None /\ wr_before = None
    /\ ThreadsIdle /\ StepsIdle /\ PlayerIdle /\ CodecIdle /\ SectorIdle /\ ArgsIdle

\* web_server.py's write_nfc, and any other caller: write_text on the tag as
\* the writes before left it.  The tag is found; a page write that is not
\* acknowledged is not stored.
Rewrite ==
    \E text \in RewriteTexts, wr_fail \in 0..MaxRewritePages :
        /\ wr_fail <= pages_needed(create_tlv_wrapper(create_text_record(text, LangEn)))
        /\ write_text(text, LangEn, FALSE, FALSE, wr_fail, FALSE)
        /\ wr_text' = text
        /\ wr_before' = StoredText

\* A poll of the tag that finds it and whose reads all succeed.
Reread ==
    /\ op = "write"
    /\ read_tag(FALSE, FALSE, 0)

RewriteNext == Rewrite \/ Reread

SpecRewrite == RewriteInit /\ [][RewriteNext]_vars

\* C33: after a write_text that returned True, a read of the page range
\* gives the written text without its leading and trailing whitespace, and
\* the poll that follows returns it.
C33_LastWriteWinsTrimmed ==
    /\ (op = "write" /\ ret_ok) => StoredText = TrimmedOrNone(wr_text)
    /\ (op = "poll" /\ ret_uid # None) => ret_text = StoredText

\* C33 with the trimmed text itself as the result, the empty text for a
\* written text that is all whitespace.
C33_LastWriteWins ==
    (op = "write" /\ ret_ok) => StoredText = strip(wr_text)

\* " i " written over the longer text, whose tail is still on the tag.
C33_Witness ==
    /\ op = "write" /\ ret_ok /\ wr_text = <<32, 105, 32>>
    /\ wr_before = [i \in 1..12 |-> 64 + i]
    /\ StoredText = <<105>>
    /\ Slice(mem, 4 * TAG_NDEF_START_PAGE + 16, 4 * TAG_NDEF_START_PAGE + 22)
          = <<72, 73, 74, 75, 76, 254>>

C33_WitnessBlank ==
    /\ op = "write" /\ ret_ok /\ wr_text = <<32>> /\ StoredText = None
    /\ wr_before = <<105>>

\* write_text returned False after a page write other than the first was
\* not acknowledged.
FailedAfterFirstPage ==
    /\ op = "write" /\ ~ret_ok /\ Len(PageWrites(calls)) >= 2

\* C35: after such a write a read of the tag gives the text it held before,
\* the text being written, or nothing.
C35_FailedWriteNotMixed ==
    FailedAfterFirstPage =>
        StoredText \in {wr_before, TrimmedOrNone(wr_text), None}

\* " i " was being written over "ABCDEFGHIJKL" and the third page write was
\* not acknowledged: the tag reads "ABC".
C35_MixedText ==
    /\ FailedAfterFirstPage /\ Len(PageWrites(calls)) = 3
    /\ wr_before = [i \in 1..12 |-> 64 + i] /\ wr_text = <<32, 105, 32>>
    /\ StoredText = <<65, 66, 67>>

(***************************************************************************)
(* C37 -- a selected tag's session is ended.                               *)
(***************************************************************************)
Issued(log, name) == \E i \in 1..Len(log) : log[i].call = name

EndsWith(log, name) == log # <<>> /\ log[Len(log)].call = name

\* C37: a write_text that selected the tag called stop_crypto last, whatever
\* it returned.
C37_WriteEndsSession ==
    (op = "write" /\ Issued(calls, "select_tag")) => EndsWith(calls, "stop_crypto")

\* write_text selected the tag, could not encode the record and returned
\* False: select_tag is the last call it made.
C37_SessionLeftOpen ==
    /\ op = "write" /\ ~ret_ok /\ field # 0
    /\ EndsWith(calls, "select_tag")
    /\ ~Issued(calls, "stop_crypto") /\ PageWrites(calls) = <<>>

\* A write_text that got as far as the page writes ends the session, failed
\* page write or not.
C37_PageWritesEndSession ==
    (op = "write" /\ PageWrites(calls) # <<>>) => EndsWith(calls, "stop_crypto")

\* The sectored _read_blocks ends the session after a failed authentication,
\* a failed read and a complete read alike.
C37_SectoredReadEndsSession ==
    (s_op = "read" /\ Issued(s_calls, "select_tag")) => EndsWith(s_calls, "stop_crypto")

(***************************************************************************)
(* C38 -- the TLV scan, pass by pass.                                      *)
(***************************************************************************)
MaxScanLen == 4         \* bytes of an enumerated buffer

\* Byte values of the enumerated buffers: NULL, a TLV type the scan skips,
\* NDEF, the terminator, the long-length marker.
ScanBytes == {0, 1, 3, 254, 255}

\* Every buffer of these bytes up to MaxScanLen, and two longer ones: a lock
\* control TLV before the NDEF TLV of "Hi", and blank memory.
ScanBuffers ==
    UNION {[1..n -> ScanBytes] : n \in 0..MaxScanLen}
    \cup {TlvBytes(TlvLock) \o TlvBytes(TlvHi) \o <<254>>, Zeros(16)}

\* `if tlv_idx >= len(raw_bytes): break` before `length = raw_bytes[tlv_idx]`
length_byte_missing_unchecked(tlv_idx, size) == FALSE

length_byte_missing(tlv_idx, size) == tlv_idx >= size

\* `if tlv_idx + 1 >= len(raw_bytes): break` before the two length bytes
long_length_missing(tlv_idx, size) == tlv_idx + 1 >= size

\* One pass of the loop body entered with tlv_idx < len(raw_bytes): where it
\* leaves the scan, the indexes it evaluates raw_bytes at, and the message it
\* returns with.
scan_pass(raw_bytes, tlv_idx) ==
    LET size == Len(raw_bytes)
        pass(next, idx, reads, message) ==
            [next |-> next, idx |-> idx, reads |-> reads, message |-> message]
        tlv_type == raw_bytes[tlv_idx + 1]
        i1 == tlv_idx + 1
    IN  IF is_null_tlv(tlv_type) THEN pass("loop", i1, {tlv_idx}, None)
        ELSE IF is_terminator(tlv_type) THEN pass("done", i1, {tlv_idx}, None)
        ELSE IF length_byte_missing(i1, size) THEN pass("done", i1, {tlv_idx}, None)
        ELSE IF i1 >= size THEN pass("raised", i1, {tlv_idx, i1}, None)
        ELSE LET short == raw_bytes[i1 + 1]
                 i2 == i1 + 1
             IN  IF short = 255 /\ long_length_missing(i2, size)
                    THEN pass("done", i2, {tlv_idx, i1}, None)
                 ELSE IF short = 255 /\ i2 + 1 >= size
                    THEN pass("raised", i2, {tlv_idx, i1, i2, i2 + 1}, None)
                 ELSE LET length == IF short = 255
                                       THEN raw_bytes[i2 + 1] * 256 + raw_bytes[i2 + 2]
                                       ELSE short
                          i3 == IF short = 255 THEN i2 + 2 ELSE i2
                          reads == IF short = 255 THEN {tlv_idx, i1, i2, i2 + 1}
                                   ELSE {tlv_idx, i1}
                      IN  IF tlv_type = 3
                             THEN pass("done", i3, reads, Slice(raw_bytes, i3, i3 + length))
                             ELSE pass("loop", next_tlv(i3, length), reads, None)

StepsInit ==
    /\ a_raw \in ScanBuffers
    /\ a_layout = NoLayout /\ a_message = NotBuilt /\ a_parsed = NotBuilt
    /\ a_start = 0 /\ a_count = 0 /\ a_data = <<>> /\ a_text = <<>> /\ a_payload = None
    /\ sc_pc = "loop" /\ sc_idx = 0 /\ sc_iter = 0 /\ sc_prev_idx = -1 /\ sc_reads = {}
    /\ CodecIdle /\ ReaderIdle /\ ThreadsIdle /\ PlayerIdle /\ SectorIdle

steps_frame ==
    /\ UNCHANGED <<a_layout, a_raw>>
    /\ UNCHANGED <<a_start, a_count, a_data, a_text, a_payload>>
    /\ UNCHANGED <<codecVars, readerVars, threadVars, playerVars, sectorVars>>

\* `while tlv_idx < len(raw_bytes)` is false: `return None` after the loop.
ScanLeave ==
    /\ sc_pc = "loop"
    /\ ~(sc_idx < Len(a_raw))
    /\ sc_pc' = "done"
    /\ a_message' = None /\ a_parsed' = None
    /\ UNCHANGED <<sc_idx, sc_iter, sc_prev_idx, sc_reads>>
    /\ steps_frame

\* One pass of the loop body.
ScanPass ==
    /\ sc_pc = "loop"
    /\ sc_idx < Len(a_raw)
    /\ \E r \in {scan_pass(a_raw, sc_idx)} :
          /\ sc_pc' = r.next
          /\ sc_idx' = r.idx
          /\ sc_reads' = sc_reads \cup r.reads
          /\ a_message' = IF r.next = "loop" THEN a_message ELSE r.message
          /\ a_parsed' = IF r.next = "loop" THEN a_parsed
                         ELSE IF r.next = "raised" THEN Raised
                         ELSE IF r.message = None THEN None
                         ELSE parse_text_record(r.message)
    /\ sc_iter' = sc_iter + 1
    /\ sc_prev_idx' = sc_idx
    /\ steps_frame

StepsNext == ScanLeave \/ ScanPass

SpecSteps == StepsInit /\ [][StepsNext]_vars

\* C38: the scan raises nothing and evaluates raw_bytes only below its
\* length; every pass leaves tlv_idx greater than it found it; there are
\* never more passes than bytes; while the scan is in the loop its next step
\* can be taken; and what it ends with is the message tlv_scan gives.
C38_ScanTerminates ==
    /\ sc_pc # "raised"
    /\ \A i \in sc_reads : 0 <= i /\ i < Len(a_raw)
    /\ sc_iter > 0 => sc_idx > sc_prev_idx
    /\ sc_iter <= Len(a_raw)
    /\ sc_pc = "loop" => ENABLED StepsNext
    /\ sc_pc = "done" => a_message = tlv_scan(a_raw)

\* The type byte is the last byte of the buffer.
C38_Witness ==
    /\ sc_pc = "done" /\ a_raw = <<0, 0, 0, 3>> /\ sc_iter = 4
    /\ sc_reads = {0, 1, 2, 3} /\ a_message = None

\* The long-length marker with one byte after it.
C38_WitnessEscape ==
    /\ sc_pc = "done" /\ a_raw = <<1, 255, 3>> /\ sc_iter = 1
    /\ sc_reads = {0, 1} /\ a_message = None

\* A skipped TLV and the NDEF message after it.
C38_WitnessFound ==
    /\ sc_pc = "done" /\ a_raw = TlvBytes(TlvLock) \o TlvBytes(TlvHi) \o <<254>>
    /\ sc_iter = 2 /\ a_parsed = <<72, 105>>

(***************************************************************************)
(* C34 -- the sectored card written and read back.                         *)
(***************************************************************************)
TAG_NDEF_START_BLOCK == 4
TAG_NDEF_BLOCK_COUNT == 16
LongBlockCount == 24    \* a configured block count that holds a 258-byte TLV

\* Texts handed to write_text_to_tag: "Hi", " Hi ", and 247 and 248 letters
\* (NDEF records of 254 and 255 bytes).
CardTexts ==
    {<<72, 105>>, <<32, 72, 105, 32>>, [i \in 1..247 |-> 65], [i \in 1..248 |-> 65]}

\* A card as it comes, large enough for the longer range.
WideCard ==
    [b \in 1..(TAG_NDEF_START_BLOCK + LongBlockCount) |->
        [i \in 1..BLOCK_SIZE |-> (BLOCK_SIZE * (b - 1) + i) % 256]]

CardInit ==
    /\ start_block = TAG_NDEF_START_BLOCK
    /\ block_count \in {TAG_NDEF_BLOCK_COUNT, LongBlockCount}
    /\ blocks_mem = WideCard
    /\ s_op = "none" /\ s_calls = <<>> /\ s_payload = None /\ s_success = FALSE
    /\ s_text = <<>> /\ s_decoded = None
    /\ CodecIdle /\ ReaderIdle /\ ThreadsIdle /\ StepsIdle /\ PlayerIdle /\ ArgsIdle

\* write_text_to_tag; every authentication succeeds, the first or the second
\* block write may report an error, and that block is not stored.
CardWrite ==
    \E text \in CardTexts, wr_fail \in {0, 1, 2} :
        write_text_to_tag(text, 0, wr_fail, FALSE)

CardNext == SectorRead \/ CardWrite

SpecCard == CardInit /\ [][CardNext]_vars

\* What a read of the range decodes to when every authentication and read
\* succeeds.
SectorStoredText ==
    decode_payload(Concat([k \in 1..Len(ReaderBlocks) |-> blocks_mem[ReaderBlocks[k] + 1]]))

\* write_text_to_tag has written every block of a text whose TLV fits.
WrittenAndFits ==
    /\ s_op = "write" /\ s_success
    /\ WrittenTlv # None /\ Len(WrittenTlv) <= SectorCapacity

\* C34: after such a write the range reads back as the written text, less
\* its leading and trailing whitespace.
C34_WriteThenRead ==
    /\ WrittenAndFits => SectorStoredText = TrimmedOrNone(s_text)
    /\ (s_op = "read" /\ s_payload # None) => s_decoded = SectorStoredText

\* The same for texts whose NDEF record is shorter than 255 bytes.
C34_ShortRecordsReadBack ==
    /\ (WrittenAndFits /\ Len(WrittenTlv) < 258) => SectorStoredText = TrimmedOrNone(s_text)
    /\ (s_op = "read" /\ s_payload # None) => s_decoded = SectorStoredText

\* 248 letters were written to the range of 24 blocks, every write
\* succeeded, and the range reads back as nothing.
C34_LongTextLost ==
    /\ WrittenAndFits /\ block_count = LongBlockCount /\ Len(s_text) = 248
    /\ Slice(blocks_mem[TAG_NDEF_START_BLOCK + 1], 0, 4) = <<3, 255, 209, 1>>
    /\ SectorStoredText = None

====
